---- MODULE Spec2Model ----
(***************************************************************************)
(* Model of DPLLSolver (src/cdcl-solver/dpll_solver.py): ingestion of a    *)
(* DIMACS CNF file, two-watched-literal BCP, chronological conflict        *)
(* analysis, backtracking and the ORDERED decider, driven by solve().      *)
(*                                                                         *)
(* Python lists are sequences; a Python index i is position i+1 here.      *)
(* Python dicts are functions whose DOMAIN is the key set.  Clause ids and *)
(* node indices keep the code's 0-based values.                            *)
(***************************************************************************)
EXTENDS Integers, Sequences, FiniteSets, TLC

\* ------------------------------------------------------------- bounds
\* Number of variables declared by the header line "p cnf <num_vars> <n>".
NumVars == 3
\* Total number of tokens on the clause lines of the file, terminators included.
MaxTokens == 7
\* Largest number of literals on one clause line (before the terminator).
MaxLen == 3
\* Number of clause lines of the files made of two-literal lines (BinarySpec).
MaxLines == 3

\* ---------------------------------------------------------- constants
\* Python's None (AssignedNode.var / .value / .clause of a node without one).
None == -1
\* The value _decide returns when no variable is left, and the backtrack level
\* _find_backtrack returns for a conflict at level 0.
NoVar == -1

VARIABLES
    file,                           \* the clause lines read so far (token lists)
    pc,                             \* position of solve()
    result,                         \* stats._result
    num_vars,                       \* _num_vars
    num_clauses,                    \* _num_clauses
    level,                          \* _level
    clauses,                        \* _clauses
    clauses_watched_by_l,           \* _clauses_watched_by_l
    literals_watching_c,            \* _literals_watching_c
    variable_to_assignment_nodes,   \* _variable_to_assignment_nodes
    assignment_stack,               \* _assignment_stack
    first_time,                     \* solve: first_time
    last_assignment_pointer,        \* BCP local
    itr,                            \* BCP local
    clauses_watched_by_falsed_literal, \* BCP local (the reversed snapshot)
    literal_that_is_falsed,         \* BCP local
    backtrack_level,                \* solve: backtrack_level
    node_to_add,                    \* solve: node_to_add
    num_learned_clauses             \* stats._num_learned_clauses

solver == <<num_clauses, level, clauses, clauses_watched_by_l, literals_watching_c,
            variable_to_assignment_nodes, assignment_stack>>
bcp_locals == <<last_assignment_pointer, itr, clauses_watched_by_falsed_literal,
                literal_that_is_falsed>>
solve_locals == <<first_time, backtrack_level, node_to_add>>
vars == <<file, pc, result, num_vars, solver, bcp_locals, solve_locals,
          num_learned_clauses>>

\* ------------------------------------------------------------ helpers
\* The empty dict.
EmptyDict == [k \in {} |-> 0]

\* dict.setdefault(k, []) as a state change of the dict.
SetDefault(d, k) == IF k \in DOMAIN d THEN d ELSE (k :> <<>>) @@ d

\* d.setdefault(k, []).append(x)
DictAppend(d, k, x) == [SetDefault(d, k) EXCEPT ![k] = Append(@, x)]

\* x in lst
InList(lst, x) == \E i \in 1..Len(lst) : lst[i] = x

\* list.remove(x): drops the first occurrence of x (the caller checks presence).
RECURSIVE ListRemove(_, _)
ListRemove(lst, x) ==
    IF lst = <<>> THEN <<>>
    ELSE IF Head(lst) = x THEN Tail(lst)
    ELSE <<Head(lst)>> \o ListRemove(Tail(lst), x)

\* list.reverse()
Reverse(lst) == [i \in 1..Len(lst) |-> lst[Len(lst) + 1 - i]]

\* list(OrderedDict.fromkeys(lst)): duplicates removed, first occurrence kept.
RECURSIVE OrderedDictFromKeys(_)
OrderedDictFromKeys(lst) ==
    IF lst = <<>> THEN <<>>
    ELSE LET front == OrderedDictFromKeys(SubSeq(lst, 1, Len(lst) - 1))
             last == lst[Len(lst)]
         IN IF InList(front, last) THEN front ELSE Append(front, last)

\* lst[:-1]
AllButLast(lst) == IF lst = <<>> THEN <<>> ELSE SubSeq(lst, 1, Len(lst) - 1)

\* AssignedNode(var, value, level, clause): index is -1 until the node is pushed.
AssignedNode(var, value, lvl, clause) ==
    [var |-> var, value |-> value, level |-> lvl, clause |-> clause, index |-> -1]

\* A node-valued local that holds None is the empty sequence, one that holds a
\* node is <<node>>.
NoNode == <<>>

\* Mutant of Push: the index of the pushed node is not recorded.
PushNoIndex(stack, node) == Append(stack, node)

\* stack.append(node); node.index = len(stack) - 1
Push(stack, node) == Append(stack, [node EXCEPT !.index = Len(stack)])

IsNegativeLiteral(literal) == literal > num_vars

GetVarFromLiteral(literal) ==
    IF IsNegativeLiteral(literal) THEN literal - num_vars ELSE literal

\* The token of a clause line as an internal literal: v for "v", v+N for "-v".
EncodeToken(tok) == IF tok < 0 THEN (0 - tok) + num_vars ELSE tok

\* Mutant of LiteralIsTrue: the test is inverted, a false literal counts as true.
LiteralIsTrueInverted(map, lit) ==
    LET value == map[GetVarFromLiteral(lit)].value
    IN (IsNegativeLiteral(lit) /\ value) \/ (~IsNegativeLiteral(lit) /\ ~value)

\* (is_negative and not value) or (not is_negative and value), for an assigned variable
LiteralIsTrue(map, lit) ==
    LET value == map[GetVarFromLiteral(lit)].value
    IN (IsNegativeLiteral(lit) /\ ~value) \/ (~IsNegativeLiteral(lit) /\ value)

\* --------------------------------------------------------------- input
\* The literal tokens a clause line may hold: "v" and "-v" for v in 1..num_vars.
Tokens == {t \in (0 - num_vars)..num_vars : t # 0}

\* The variable of a literal token.
TokenAbs(tok) == IF tok < 0 THEN 0 - tok ELSE tok

RECURSIVE TokensUsed(_)
TokensUsed(f) == IF f = <<>> THEN 0 ELSE Len(Head(f)) + TokensUsed(Tail(f))

\* The clause lines the file may continue with: at most MaxLen literal tokens and
\* the terminator 0, within the token budget of the file.
NextLines ==
    LET left == MaxTokens - TokensUsed(file)
    IN UNION {{Append(lits, 0) : lits \in [1..k -> Tokens]} :
                  k \in {j \in 0..MaxLen : j + 1 <= left}}

\* ---------------------------------------------------------------- Init
Init ==
    /\ file = <<>>
    /\ pc = "header"
    /\ result = ""
    /\ num_vars = 0
    /\ num_clauses = 0
    /\ level = 0
    /\ clauses = <<>>
    /\ clauses_watched_by_l = EmptyDict
    /\ literals_watching_c = EmptyDict
    /\ variable_to_assignment_nodes = EmptyDict
    /\ assignment_stack = <<>>
    /\ first_time = FALSE
    /\ last_assignment_pointer = 0
    /\ itr = 0
    /\ clauses_watched_by_falsed_literal = <<>>
    /\ literal_that_is_falsed = 0
    /\ backtrack_level = 0
    /\ node_to_add = NoNode
    /\ num_learned_clauses = 0

\* ----------------------------------------------------------- ingestion
\* _read_dimacs_cnf_file: the header line "p cnf <num_vars> <num_clauses>".
ReadHeader ==
    /\ pc = "header"
    /\ num_vars' = NumVars
    /\ pc' = "read"
    /\ UNCHANGED <<file, result, solver, bcp_locals, solve_locals>>
    /\ UNCHANGED num_learned_clauses

\* _add_clause, unit branch: the value and variable of the single token.
UnitValue(lit) == lit > 0
UnitVar(lit) == IF lit < 0 THEN 0 - lit ELSE lit

\* Mutant of UnitConflicts: the opposite value goes unnoticed.
UnitConflictsIgnored(map, var, value_to_set) == FALSE

\* _add_clause, unit branch: the variable already holds the opposite value.
UnitConflicts(map, var, value_to_set) ==
    var \in DOMAIN map /\ map[var].value # value_to_set

\* Mutant of InitialWatches: the first and the last literal are watched.
InitialWatchesLast(clause_with_literals) ==
    <<clause_with_literals[1], clause_with_literals[Len(clause_with_literals)]>>

\* _add_clause: the initial watched pair of a stored clause.
InitialWatches(clause_with_literals) ==
    <<clause_with_literals[1], clause_with_literals[2]>>

\* _add_clause, with the caller's "if ret == 0: break".
AddClause(line) ==
    LET clause == OrderedDictFromKeys(AllButLast(line))
        clause_with_literals == [i \in 1..Len(clause) |-> EncodeToken(clause[i])]
        clause_id == num_clauses
    IN /\ file' = Append(file, line)
       /\ IF Len(clause) = 1
          THEN LET value_to_set == UnitValue(clause[1])
                   var == UnitVar(clause[1])
                   node == AssignedNode(var, value_to_set, 0, None)
               IN /\ IF var \notin DOMAIN variable_to_assignment_nodes
                     THEN /\ assignment_stack' = Push(assignment_stack, node)
                          /\ variable_to_assignment_nodes' =
                                (var :> Push(assignment_stack, node)[Len(assignment_stack) + 1])
                                    @@ variable_to_assignment_nodes
                          /\ pc' = "read"
                          /\ UNCHANGED result
                     ELSE /\ UNCHANGED <<assignment_stack, variable_to_assignment_nodes>>
                          /\ IF UnitConflicts(variable_to_assignment_nodes, var, value_to_set)
                             THEN result' = "UNSAT" /\ pc' = "solve"
                             ELSE pc' = "read" /\ UNCHANGED result
                  /\ UNCHANGED <<num_clauses, clauses, clauses_watched_by_l,
                                 literals_watching_c>>
          ELSE /\ clauses' = Append(clauses, clause_with_literals)
               /\ num_clauses' = num_clauses + 1
               /\ IF Len(clause_with_literals) = 0
                  THEN \* clause_with_literals[0] raises IndexError
                       /\ pc' = "crashed"
                       /\ UNCHANGED <<clauses_watched_by_l, literals_watching_c>>
                  ELSE LET watches == InitialWatches(clause_with_literals)
                       IN /\ literals_watching_c' =
                                (clause_id :> watches) @@ literals_watching_c
                          /\ clauses_watched_by_l' =
                                DictAppend(DictAppend(clauses_watched_by_l,
                                                      watches[1], clause_id),
                                           watches[2], clause_id)
                          /\ pc' = "read"
               /\ UNCHANGED <<result, assignment_stack, variable_to_assignment_nodes>>
       /\ UNCHANGED <<num_vars, level, bcp_locals, solve_locals>>
       /\ UNCHANGED num_learned_clauses

\* _read_dimacs_cnf_file: the next clause line of the file.
ReadLine ==
    /\ pc = "read"
    /\ \E line \in NextLines : AddClause(line)

\* _read_dimacs_cnf_file: the for loop runs out of lines.
EndOfFile ==
    /\ pc = "read"
    /\ pc' = "solve"
    /\ UNCHANGED <<file, result, num_vars, solver, bcp_locals, solve_locals>>
    /\ UNCHANGED num_learned_clauses

\* solve: the test that follows reading, and the start of the loop.
SolveStart ==
    /\ pc = "solve"
    /\ IF result = "UNSAT"
       THEN pc' = "done" /\ UNCHANGED first_time
       ELSE pc' = "bcp" /\ first_time' = TRUE
    /\ UNCHANGED <<file, result, num_vars, solver, bcp_locals, backtrack_level, node_to_add>>
    /\ UNCHANGED num_learned_clauses

\* ----------------------------------------------------------------- BCP
\* Mutant of FalsedLiteral: the polarity is swapped.
FalsedLiteralSwapped(node) == IF node.value THEN node.var ELSE node.var + num_vars

\* The literal the assignment of a trail node makes false.
FalsedLiteral(node) == IF node.value THEN node.var + num_vars ELSE node.var

\* Mutant of OtherWatchLiteral: the first member of the pair is taken, also when
\* it is the falsified literal itself.
OtherWatchLiteralFirst(watch_list_of_clause, falsed) == watch_list_of_clause[1]

\* The member of the watched pair that is not the falsified literal.
OtherWatchLiteral(watch_list_of_clause, falsed) ==
    IF watch_list_of_clause[1] = falsed
    THEN watch_list_of_clause[2]
    ELSE watch_list_of_clause[1]

\* Mutant of CanWatch: any literal outside the watched pair may take over the
\* watch, a false one included.
CanWatchAnyOther(lit, watch_list_of_clause, map) == ~InList(watch_list_of_clause, lit)

\* A literal of the clause may take over the watch: it is not in the watched
\* pair and is unassigned or true.
CanWatch(lit, watch_list_of_clause, map) ==
    /\ ~InList(watch_list_of_clause, lit)
    /\ \/ GetVarFromLiteral(lit) \notin DOMAIN map
       \/ LiteralIsTrue(map, lit)

\* Mutant of NewLiteralToWatch: no literal is ever found to take over the watch.
NewLiteralToWatchNone(clause, watch_list_of_clause, map) == -1

\* The first literal of the clause that may take over the watch, or -1.
NewLiteralToWatch(clause, watch_list_of_clause, map) ==
    LET ok == {i \in 1..Len(clause) : CanWatch(clause[i], watch_list_of_clause, map)}
    IN IF ok = {} THEN -1
       ELSE clause[CHOOSE i \in ok : \A j \in ok : i <= j]

\* Mutant of MovedWatchPair: the pair is left as it was.
MovedWatchPairKept(watch_list_of_clause, falsed, new_literal_to_watch) ==
    watch_list_of_clause

\* Mutant of MovedWatchPair: the falsified literal stays in the pair and the other
\* watched literal is dropped.
MovedWatchPairDropOther(watch_list_of_clause, falsed, new_literal_to_watch) ==
    <<falsed, new_literal_to_watch>>

\* The watched pair after the watch moved from the falsified literal to the new one.
MovedWatchPair(watch_list_of_clause, falsed, new_literal_to_watch) ==
    Append(ListRemove(watch_list_of_clause, falsed), new_literal_to_watch)

\* Mutant of MovedWatchLists: the clause joins the new literal's list but is not
\* removed from the falsified literal's list.
MovedWatchListsKeepOld(dict, clause_id, falsed, new_literal_to_watch) ==
    DictAppend(dict, new_literal_to_watch, clause_id)

\* The watch lists after the same move: the clause leaves the falsified literal's
\* list and joins the new literal's list.
MovedWatchLists(dict, clause_id, falsed, new_literal_to_watch) ==
    DictAppend([dict EXCEPT ![falsed] = ListRemove(@, clause_id)],
               new_literal_to_watch, clause_id)

\* Mutant of ImpliedValue: the forced value makes the other watched literal false.
ImpliedValueNegated(other_watch_literal) == IsNegativeLiteral(other_watch_literal)

\* The value that makes the other watched literal true.
ImpliedValue(other_watch_literal) == ~IsNegativeLiteral(other_watch_literal)

\* The body of the outer while loop up to the inner loop: the falsified literal
\* of the node at the pointer and the reversed copy of its watch list.
LoadNode(pointer) ==
    LET lit == FalsedLiteral(assignment_stack[pointer + 1])
        dict == SetDefault(clauses_watched_by_l, lit)
    IN /\ last_assignment_pointer' = pointer
       /\ literal_that_is_falsed' = lit
       /\ itr' = 0
       /\ clauses_watched_by_l' = dict
       /\ clauses_watched_by_falsed_literal' = Reverse(dict[lit])
       /\ pc' = "bcp_clause"

\* The locals of a BCP call after it has returned.
DropLocals ==
    /\ last_assignment_pointer' = 0
    /\ itr' = 0
    /\ clauses_watched_by_falsed_literal' = <<>>
    /\ literal_that_is_falsed' = 0

\* return "NO_CONFLICT", and solve's break out of the inner loop.
ReturnNoConflict ==
    /\ pc' = "decide"
    /\ DropLocals
    /\ UNCHANGED clauses_watched_by_l

\* Mutant of StartPointer: the first pass starts at the tail as well.
StartPointerTail(is_first_time, stack) == Len(stack) - 1

\* Mutant of StartPointer: every pass starts at index 0.
StartPointerZero(is_first_time, stack) == 0

\* Where a BCP call starts to scan the trail.
StartPointer(is_first_time, stack) == IF is_first_time THEN 0 ELSE Len(stack) - 1

\* _boolean_constraint_propogation(first_time): entry, up to the first node.
BCPBegin ==
    /\ pc = "bcp"
    /\ LET pointer == StartPointer(first_time, assignment_stack)
       IN IF pointer < Len(assignment_stack)
          THEN IF pointer < 0
               THEN \* assignment_stack[-1] of an empty list raises IndexError
                    /\ pc' = "crashed"
                    /\ UNCHANGED <<clauses_watched_by_l, bcp_locals>>
               ELSE LoadNode(pointer)
          ELSE ReturnNoConflict
    /\ UNCHANGED <<file, result, num_vars, num_clauses, level, clauses,
                   literals_watching_c, variable_to_assignment_nodes,
                   assignment_stack, solve_locals>>
    /\ UNCHANGED num_learned_clauses

\* One pass of the inner while loop: the clause at itr of the snapshot.
BCPClause ==
    /\ pc = "bcp_clause"
    /\ itr < Len(clauses_watched_by_falsed_literal)
    /\ LET clause_id == clauses_watched_by_falsed_literal[itr + 1]
           watch_list_of_clause == literals_watching_c[clause_id]
           other_watch_literal ==
               OtherWatchLiteral(watch_list_of_clause, literal_that_is_falsed)
           other_watch_var == GetVarFromLiteral(other_watch_literal)
           map == variable_to_assignment_nodes
           new_literal_to_watch ==
               NewLiteralToWatch(clauses[clause_id + 1], watch_list_of_clause, map)
       IN IF other_watch_var \in DOMAIN map /\ LiteralIsTrue(map, other_watch_literal)
          THEN \* the clause is satisfied by its other watch
               /\ itr' = itr + 1
               /\ UNCHANGED <<pc, solver, last_assignment_pointer,
                              clauses_watched_by_falsed_literal, literal_that_is_falsed>>
          ELSE IF new_literal_to_watch # -1
          THEN IF ~InList(watch_list_of_clause, literal_that_is_falsed)
                  \/ ~InList(clauses_watched_by_l[literal_that_is_falsed], clause_id)
               THEN \* list.remove raises ValueError
                    /\ pc' = "crashed"
                    /\ UNCHANGED <<solver, bcp_locals>>
               ELSE /\ literals_watching_c' =
                          [literals_watching_c EXCEPT ![clause_id] =
                              MovedWatchPair(@, literal_that_is_falsed,
                                             new_literal_to_watch)]
                    /\ clauses_watched_by_l' =
                          MovedWatchLists(clauses_watched_by_l, clause_id,
                                          literal_that_is_falsed, new_literal_to_watch)
                    /\ itr' = itr + 1
                    /\ UNCHANGED <<pc, num_clauses, level, clauses,
                                   variable_to_assignment_nodes, assignment_stack,
                                   last_assignment_pointer,
                                   clauses_watched_by_falsed_literal,
                                   literal_that_is_falsed>>
          ELSE IF other_watch_var \notin DOMAIN map
          THEN \* the clause is unit: force the other watch
               LET stack == Push(assignment_stack,
                                 AssignedNode(other_watch_var,
                                              ImpliedValue(other_watch_literal),
                                              level, clause_id))
               IN /\ assignment_stack' = stack
                  /\ variable_to_assignment_nodes' =
                        (other_watch_var :> stack[Len(stack)]) @@ map
                  /\ itr' = itr + 1
                  /\ UNCHANGED <<pc, num_clauses, level, clauses, clauses_watched_by_l,
                                 literals_watching_c, last_assignment_pointer,
                                 clauses_watched_by_falsed_literal,
                                 literal_that_is_falsed>>
          ELSE \* conflict: push the sentinel and return "CONFLICT"
               /\ assignment_stack' =
                     Push(assignment_stack, AssignedNode(None, None, level, clause_id))
               /\ pc' = "analyze"
               /\ DropLocals
               /\ UNCHANGED <<num_clauses, level, clauses, clauses_watched_by_l,
                              literals_watching_c, variable_to_assignment_nodes>>
    /\ UNCHANGED <<file, result, num_vars, solve_locals>>
    /\ UNCHANGED num_learned_clauses

\* The inner loop is over: advance the pointer, load the next node or return.
BCPAdvance ==
    /\ pc = "bcp_clause"
    /\ itr >= Len(clauses_watched_by_falsed_literal)
    /\ IF last_assignment_pointer + 1 < Len(assignment_stack)
       THEN LoadNode(last_assignment_pointer + 1)
       ELSE ReturnNoConflict
    /\ UNCHANGED <<file, result, num_vars, num_clauses, level, clauses,
                   literals_watching_c, variable_to_assignment_nodes,
                   assignment_stack, solve_locals>>
    /\ UNCHANGED num_learned_clauses

\* --------------------------------------------- BCP as one call (a function)
\* The solver as a function of its fields: ret is "" while a call runs and then
\* what the call returns, or the name of the exception it raises.
\* The fields of the current state.
SolverFields ==
    [result |-> result,
     num_clauses |-> num_clauses,
     level |-> level,
     clauses |-> clauses,
     clauses_watched_by_l |-> clauses_watched_by_l,
     literals_watching_c |-> literals_watching_c,
     map |-> variable_to_assignment_nodes,
     stack |-> assignment_stack,
     ret |-> ""]

\* The inner while loop of BCP from position i of the snapshot on.
RECURSIVE BCPInnerLoop(_, _, _, _)
BCPInnerLoop(s, falsed, snapshot, i) ==
    IF i >= Len(snapshot) THEN s
    ELSE LET clause_id == snapshot[i + 1]
             watch_list_of_clause == s.literals_watching_c[clause_id]
             other_watch_literal == OtherWatchLiteral(watch_list_of_clause, falsed)
             other_watch_var == GetVarFromLiteral(other_watch_literal)
             new_literal_to_watch ==
                 NewLiteralToWatch(s.clauses[clause_id + 1], watch_list_of_clause, s.map)
             implied == Push(s.stack,
                             AssignedNode(other_watch_var,
                                          ImpliedValue(other_watch_literal),
                                          s.level, clause_id))
         IN IF other_watch_var \in DOMAIN s.map /\ LiteralIsTrue(s.map, other_watch_literal)
            THEN BCPInnerLoop(s, falsed, snapshot, i + 1)
            ELSE IF new_literal_to_watch # -1
            THEN IF ~InList(watch_list_of_clause, falsed)
                    \/ ~InList(s.clauses_watched_by_l[falsed], clause_id)
                 THEN [s EXCEPT !.ret = "ValueError"]
                 ELSE BCPInnerLoop(
                          [s EXCEPT
                             !.literals_watching_c =
                                 [@ EXCEPT ![clause_id] =
                                     MovedWatchPair(@, falsed, new_literal_to_watch)],
                             !.clauses_watched_by_l =
                                 MovedWatchLists(@, clause_id, falsed, new_literal_to_watch)],
                          falsed, snapshot, i + 1)
            ELSE IF other_watch_var \notin DOMAIN s.map
            THEN BCPInnerLoop(
                     [s EXCEPT !.stack = implied,
                               !.map = (other_watch_var :> implied[Len(implied)]) @@ @],
                     falsed, snapshot, i + 1)
            ELSE [s EXCEPT !.stack = Push(@, AssignedNode(None, None, s.level, clause_id)),
                           !.ret = "CONFLICT"]

\* The outer while loop of BCP from the node at the pointer on.
RECURSIVE BCPOuterLoop(_, _)
BCPOuterLoop(s, pointer) ==
    IF pointer >= Len(s.stack) THEN [s EXCEPT !.ret = "NO_CONFLICT"]
    ELSE IF pointer < 0
    THEN \* assignment_stack[-1] of an empty list
         [s EXCEPT !.ret = "IndexError"]
    ELSE LET lit == FalsedLiteral(s.stack[pointer + 1])
             dict == SetDefault(s.clauses_watched_by_l, lit)
             after == BCPInnerLoop([s EXCEPT !.clauses_watched_by_l = dict],
                                   lit, Reverse(dict[lit]), 0)
         IN IF after.ret # "" THEN after ELSE BCPOuterLoop(after, pointer + 1)

\* _boolean_constraint_propogation(is_first_time) on the solver fields s.
BCP(s, is_first_time) ==
    BCPOuterLoop([s EXCEPT !.ret = ""], StartPointer(is_first_time, s.stack))

\* _boolean_constraint_propogation(is_first_time), called in the current state.
boolean_constraint_propogation(is_first_time) == BCP(SolverFields, is_first_time)

\* ---------------------------------------------------- conflict analysis
\* The level _find_backtrack returns for a conflict at level conflict_level >= 1.
BacktrackLevel(conflict_level) == conflict_level - 1

\* Mutant of FlipValue: the decision is installed again without negation.
FlipValueSame(value) == value

\* The value of the node that replaces the undone decision.
FlipValue(value) == ~value

\* Mutant of WithoutSentinel: the conflict node stays on the trail.
WithoutSentinelKept(stack) == stack

\* _find_backtrack: self._assignment_stack.pop(), which removes the conflict node.
WithoutSentinel(stack) == AllButLast(stack)

\* Mutant of BacktrackNodePos: the scan stops at the node right below the tail.
BacktrackNodePosLast(stack, conflict_level) ==
    IF Len(stack) >= 2 /\ stack[Len(stack) - 1].level = conflict_level
    THEN Len(stack) - 1
    ELSE 0

\* The position (1-based) of the node the backward scan ends on: the earliest
\* node of the unbroken run of nodes at conflict_level that ends right below
\* the tail; 0 when the node below the tail is not at conflict_level.
BacktrackNodePos(stack, conflict_level) ==
    LET run == {p \in 1..(Len(stack) - 1) :
                   \A q \in p..(Len(stack) - 1) : stack[q].level = conflict_level}
    IN IF run = {} THEN 0 ELSE CHOOSE p \in run : \A q \in run : p <= q

\* solve: BCP returned "CONFLICT"; _find_backtrack and the test of its result.
FindBacktrack ==
    /\ pc = "analyze"
    /\ first_time' = FALSE
    /\ LET conflict_level == assignment_stack[Len(assignment_stack)].level
           pos == BacktrackNodePos(assignment_stack, conflict_level)
       IN IF conflict_level = 0
          THEN \* return -1, None: the solver ends UNSAT
               /\ backtrack_level' = NoVar
               /\ node_to_add' = NoNode
               /\ result' = "UNSAT"
               /\ pc' = "done"
               /\ UNCHANGED assignment_stack
          ELSE IF pos = 0
          THEN \* backtrack_node is None: backtrack_node.var raises AttributeError
               /\ pc' = "crashed"
               /\ UNCHANGED <<backtrack_level, node_to_add, result, assignment_stack>>
          ELSE /\ backtrack_level' = BacktrackLevel(conflict_level)
               /\ node_to_add' =
                     <<AssignedNode(assignment_stack[pos].var,
                                    FlipValue(assignment_stack[pos].value),
                                    BacktrackLevel(conflict_level), None)>>
               /\ assignment_stack' = WithoutSentinel(assignment_stack)
               /\ pc' = "backtrack"
               /\ UNCHANGED result
    /\ UNCHANGED <<file, num_vars, num_clauses, level, clauses, clauses_watched_by_l,
                   literals_watching_c, variable_to_assignment_nodes, bcp_locals>>
    /\ UNCHANGED num_learned_clauses

\* ------------------------------------------------------------ backtrack
\* Mutant of KeptLength: nothing is popped.
KeptLengthAll(stack, target) == Len(stack)

\* Mutant of KeptLength: the pop loop stops one node early.
KeptLengthOneMore(stack, target) ==
    LET kept == {p \in 1..Len(stack) : stack[p].level <= target}
        last == IF kept = {} THEN 0 ELSE CHOOSE p \in kept : \A q \in kept : q <= p
    IN IF last < Len(stack) THEN last + 1 ELSE last

\* The number of nodes _backtrack keeps: it pops from the tail until it meets a
\* node whose level is at most the target level.
KeptLength(stack, target) ==
    LET kept == {p \in 1..Len(stack) : stack[p].level <= target}
    IN IF kept = {} THEN 0 ELSE CHOOSE p \in kept : \A q \in kept : q <= p

\* Mutant of MapWithout: the popped variables stay in the map.
MapWithoutKeep(map, popped_vars) == map

\* The map after "del map[node.var]" for each popped node.
MapWithout(map, popped_vars) == [v \in (DOMAIN map) \ popped_vars |-> map[v]]

\* Mutant of WithNodeToAdd: node_to_add is not appended to the trail.
WithNodeToAddDropped(stack, node) == stack

\* The trail after "if node_to_add: ... append(node_to_add)".
WithNodeToAdd(stack, node) == IF node # NoNode THEN Push(stack, node[1]) ELSE stack

\* Mutant of MapWithNodeToAdd: the map gets a copy of the node as it was before
\* its index was recorded.
MapWithNodeToAddStale(map, node, kept) ==
    IF node # NoNode THEN (node[1].var :> node[1]) @@ map ELSE map

\* The map after "if node_to_add: map[node_to_add.var] = node_to_add"; the node
\* gets the index of its place on the trail of kept nodes.
MapWithNodeToAdd(map, node, kept) ==
    IF node # NoNode
    THEN (node[1].var :> [node[1] EXCEPT !.index = kept]) @@ map
    ELSE map

\* Mutant of Backtracked: the nodes above the target level are popped, but
\* node_to_add is neither appended to the trail nor recorded in the map.
BacktrackedWithoutNode(stack, map, target, node) ==
    LET kept == KeptLength(stack, target)
    IN [stack |-> SubSeq(stack, 1, kept),
        map |-> MapWithout(map, {stack[p].var : p \in (kept + 1)..Len(stack)})]

\* The trail and the map _backtrack leaves behind.
Backtracked(stack, map, target, node) ==
    LET kept == KeptLength(stack, target)
    IN [stack |-> WithNodeToAdd(SubSeq(stack, 1, kept), node),
        map |-> MapWithNodeToAdd(
                    MapWithout(map, {stack[p].var : p \in (kept + 1)..Len(stack)}),
                    node, kept)]

\* _backtrack(backtrack_level, node_to_add), then the next pass of the inner loop.
Backtrack ==
    /\ pc = "backtrack"
    /\ LET kept == KeptLength(assignment_stack, backtrack_level)
           popped == (kept + 1)..Len(assignment_stack)
           popped_vars == {assignment_stack[p].var : p \in popped}
           after == Backtracked(assignment_stack, variable_to_assignment_nodes,
                                backtrack_level, node_to_add)
       IN /\ level' = backtrack_level
          /\ IF \/ ~(popped_vars \subseteq DOMAIN variable_to_assignment_nodes)
                \/ Cardinality(popped_vars) # Cardinality(popped)
             THEN \* del of a missing key raises KeyError
                  /\ pc' = "crashed"
                  /\ UNCHANGED <<assignment_stack, variable_to_assignment_nodes>>
             ELSE /\ assignment_stack' = after.stack
                  /\ variable_to_assignment_nodes' = after.map
                  /\ pc' = "bcp"
    /\ UNCHANGED <<file, result, num_vars, num_clauses, clauses, clauses_watched_by_l,
                   literals_watching_c, bcp_locals, solve_locals>>
    /\ UNCHANGED num_learned_clauses

\* --------------------------------------------------------------- decide
\* Mutant of DecideVar: no variable is ever found.
DecideVarNone(map) == NoVar

\* Mutant of DecideVar: the largest variable without a node is picked.
DecideVarLargest(map) ==
    LET free == {x \in 1..num_vars : x \notin DOMAIN map}
    IN IF free = {} THEN NoVar ELSE CHOOSE x \in free : \A y \in free : y <= x

\* ORDERED: the smallest variable without a node, or -1.
DecideVar(map) ==
    LET free == {x \in 1..num_vars : x \notin DOMAIN map}
    IN IF free = {} THEN NoVar ELSE CHOOSE x \in free : \A y \in free : x <= y

\* Mutant of DecideValue: the decider sets its variable to false.
DecideValueFalse == FALSE

\* ORDERED: value_to_set
DecideValue == TRUE

\* solve: first_time = False; _decide(); the test of its result.
Decide ==
    /\ pc = "decide"
    /\ first_time' = FALSE
    /\ LET var == DecideVar(variable_to_assignment_nodes)
           stack == Push(assignment_stack,
                         AssignedNode(var, DecideValue, level + 1, None))
       IN IF var = NoVar
          THEN /\ result' = "SAT"
               /\ pc' = "done"
               /\ UNCHANGED <<level, assignment_stack, variable_to_assignment_nodes>>
          ELSE /\ level' = level + 1
               /\ assignment_stack' = stack
               /\ variable_to_assignment_nodes' =
                     (var :> stack[Len(stack)]) @@ variable_to_assignment_nodes
               /\ pc' = "bcp"
               /\ UNCHANGED result
    /\ UNCHANGED <<file, num_vars, num_clauses, clauses, clauses_watched_by_l,
                   literals_watching_c, bcp_locals, backtrack_level, node_to_add>>
    /\ UNCHANGED num_learned_clauses

\* ------------------------------------------- solve as one call (a function)
\* The fields of a solver object before the first clause line is read.
NewSolver ==
    [result |-> "",
     num_clauses |-> 0,
     level |-> 0,
     clauses |-> <<>>,
     clauses_watched_by_l |-> EmptyDict,
     literals_watching_c |-> EmptyDict,
     map |-> EmptyDict,
     stack |-> <<>>,
     ret |-> ""]

\* _add_clause(line) on the solver fields s: ret is "1" or "0", or "IndexError".
add_clause(s, line) ==
    LET clause == OrderedDictFromKeys(AllButLast(line))
        clause_with_literals == [i \in 1..Len(clause) |-> EncodeToken(clause[i])]
        clause_id == s.num_clauses
        stored == [s EXCEPT !.clauses = Append(@, clause_with_literals),
                            !.num_clauses = @ + 1]
    IN IF Len(clause) = 1
       THEN LET value_to_set == UnitValue(clause[1])
                var == UnitVar(clause[1])
                pushed == Push(s.stack, AssignedNode(var, value_to_set, 0, None))
            IN IF var \notin DOMAIN s.map
               THEN [s EXCEPT !.stack = pushed,
                              !.map = (var :> pushed[Len(pushed)]) @@ @,
                              !.ret = "1"]
               ELSE IF UnitConflicts(s.map, var, value_to_set)
               THEN [s EXCEPT !.result = "UNSAT", !.ret = "0"]
               ELSE [s EXCEPT !.ret = "1"]
       ELSE IF Len(clause_with_literals) = 0
       THEN \* clause_with_literals[0] raises IndexError
            [stored EXCEPT !.ret = "IndexError"]
       ELSE LET watches == InitialWatches(clause_with_literals)
            IN [stored EXCEPT
                  !.literals_watching_c = (clause_id :> watches) @@ @,
                  !.clauses_watched_by_l =
                      DictAppend(DictAppend(@, watches[1], clause_id),
                                 watches[2], clause_id),
                  !.ret = "1"]

\* _read_dimacs_cnf_file: the loop over the clause lines, with its break.
RECURSIVE read_dimacs_cnf_file(_, _)
read_dimacs_cnf_file(s, lines) ==
    IF lines = <<>> THEN [s EXCEPT !.ret = ""]
    ELSE LET added == add_clause(s, Head(lines))
         IN IF added.ret = "1" THEN read_dimacs_cnf_file(added, Tail(lines))
            ELSE IF added.ret = "0" THEN [added EXCEPT !.ret = ""]
            ELSE added

\* _decide() on the solver fields s: ret is "-1" when no variable is left.
decide(s) ==
    LET var == DecideVar(s.map)
        pushed == Push(s.stack, AssignedNode(var, DecideValue, s.level + 1, None))
    IN IF var = NoVar THEN [s EXCEPT !.ret = "-1"]
       ELSE [s EXCEPT !.level = @ + 1,
                      !.stack = pushed,
                      !.map = (var :> pushed[Len(pushed)]) @@ @,
                      !.ret = "var"]

\* _find_backtrack() and _backtrack(backtrack_level, node_to_add) on the solver
\* fields s after BCP returned CONFLICT: ret is "-1" for a conflict at level 0.
find_backtrack_and_backtrack(s) ==
    LET conflict_level == s.stack[Len(s.stack)].level
        pos == BacktrackNodePos(s.stack, conflict_level)
        target == BacktrackLevel(conflict_level)
        node == AssignedNode(s.stack[pos].var, FlipValue(s.stack[pos].value),
                             target, None)
        popped_sentinel == WithoutSentinel(s.stack)
        kept == KeptLength(popped_sentinel, target)
        popped == (kept + 1)..Len(popped_sentinel)
        popped_vars == {popped_sentinel[p].var : p \in popped}
        after == Backtracked(popped_sentinel, s.map, target, <<node>>)
    IN IF conflict_level = 0 THEN [s EXCEPT !.ret = "-1"]
       ELSE IF pos = 0 THEN [s EXCEPT !.ret = "AttributeError"]
       ELSE IF \/ ~(popped_vars \subseteq DOMAIN s.map)
               \/ Cardinality(popped_vars) # Cardinality(popped)
       THEN [s EXCEPT !.level = target, !.stack = popped_sentinel, !.ret = "KeyError"]
       ELSE [s EXCEPT !.level = target, !.stack = after.stack, !.map = after.map,
                      !.ret = ""]

\* solve: the loop, from a BCP call on.
RECURSIVE solve_loop(_, _)
solve_loop(s, is_first_time) ==
    LET after_bcp == BCP(s, is_first_time)
        decided == decide(after_bcp)
        backtracked == find_backtrack_and_backtrack(after_bcp)
    IN IF after_bcp.ret = "NO_CONFLICT"
       THEN IF decided.ret = "-1"
            THEN [decided EXCEPT !.result = "SAT", !.ret = ""]
            ELSE solve_loop(decided, FALSE)
       ELSE IF after_bcp.ret = "CONFLICT"
       THEN IF backtracked.ret = "-1"
            THEN [backtracked EXCEPT !.result = "UNSAT", !.ret = ""]
            ELSE IF backtracked.ret = "" THEN solve_loop(backtracked, FALSE)
            ELSE backtracked
       ELSE after_bcp

\* solve on a file with the given clause lines (the header read): the fields it
\* leaves, ret holding the name of the exception when one ends the call.
solve(lines) ==
    LET read == read_dimacs_cnf_file(NewSolver, lines)
    IN IF read.ret # "" \/ read.result = "UNSAT" THEN read
       ELSE solve_loop(read, TRUE)

\* ------------------------------------------------------- specification
Next ==
    \/ ReadHeader
    \/ ReadLine
    \/ EndOfFile
    \/ SolveStart
    \/ BCPBegin
    \/ BCPClause
    \/ BCPAdvance
    \/ FindBacktrack
    \/ Backtrack
    \/ Decide

Spec == Init /\ [][Next]_vars

\* solve() is straight-line, single-threaded code: a step that can be taken is taken.
FairSpec == Spec /\ WF_vars(Next)

\* ------------------------------- files of two-literal clause lines
\* The clause lines "a b 0" whose two literals are over different variables.
BinaryLines ==
    {<<pair[1], pair[2], 0>> :
        pair \in {q \in Tokens \X Tokens : q[1] # q[2] /\ q[1] + q[2] # 0}}

\* _read_dimacs_cnf_file: the next clause line of a file of at most MaxLines
\* two-literal lines.
ReadBinaryLine ==
    /\ pc = "read"
    /\ Len(file) < MaxLines
    /\ \E line \in BinaryLines : AddClause(line)

BinaryNext ==
    \/ ReadHeader
    \/ ReadBinaryLine
    \/ EndOfFile
    \/ SolveStart
    \/ BCPBegin
    \/ BCPClause
    \/ BCPAdvance
    \/ FindBacktrack
    \/ Backtrack
    \/ Decide

BinarySpec == Init /\ [][BinaryNext]_vars

FairBinarySpec == BinarySpec /\ WF_vars(BinaryNext)

\* ---------- files of one- and two-literal clause lines over one more variable
\* The number of variables of the wider header "p cnf <num_vars> <n>".
WideVars == NumVars + 1

\* _read_dimacs_cnf_file: a header line that declares WideVars variables.
ReadWideHeader ==
    /\ pc = "header"
    /\ num_vars' = WideVars
    /\ pc' = "read"
    /\ UNCHANGED <<file, result, solver, bcp_locals, solve_locals>>
    /\ UNCHANGED num_learned_clauses

\* The unit clause lines "a 0" and the two-literal clause lines.
ShortLines == {<<tok, 0>> : tok \in Tokens} \cup BinaryLines

\* _read_dimacs_cnf_file: the next clause line of a file of at most MaxLines
\* lines of one or two literals.
ReadShortLine ==
    /\ pc = "read"
    /\ Len(file) < MaxLines
    /\ \E line \in ShortLines : AddClause(line)

WideNext ==
    \/ ReadWideHeader
    \/ ReadShortLine
    \/ EndOfFile
    \/ SolveStart
    \/ BCPBegin
    \/ BCPClause
    \/ BCPAdvance
    \/ FindBacktrack
    \/ Backtrack
    \/ Decide

WideSpec == Init /\ [][WideNext]_vars

\* ------------------ files of two- and three-literal clause lines
\* The clause lines "a b c 0" whose three literals are over different variables.
TernaryLines ==
    {<<t[1], t[2], t[3], 0>> :
        t \in {q \in Tokens \X Tokens \X Tokens :
                  Cardinality({TokenAbs(q[1]), TokenAbs(q[2]), TokenAbs(q[3])}) = 3}}

\* _read_dimacs_cnf_file: the next clause line of a file of at most MaxLines
\* lines of two or three literals.
ReadLongLine ==
    /\ pc = "read"
    /\ Len(file) < MaxLines
    /\ \E line \in BinaryLines \cup TernaryLines : AddClause(line)

LongNext ==
    \/ ReadHeader
    \/ ReadLongLine
    \/ EndOfFile
    \/ SolveStart
    \/ BCPBegin
    \/ BCPClause
    \/ BCPAdvance
    \/ FindBacktrack
    \/ Backtrack
    \/ Decide

LongSpec == Init /\ [][LongNext]_vars

\* ------------------ files of one more two-literal clause line
\* The number of clause lines of the longer files.
DeepLines == MaxLines + 1

\* _read_dimacs_cnf_file: the next clause line of a file of at most DeepLines
\* two-literal lines.
ReadDeepLine ==
    /\ pc = "read"
    /\ Len(file) < DeepLines
    /\ \E line \in BinaryLines : AddClause(line)

DeepNext ==
    \/ ReadHeader
    \/ ReadDeepLine
    \/ EndOfFile
    \/ SolveStart
    \/ BCPBegin
    \/ BCPClause
    \/ BCPAdvance
    \/ FindBacktrack
    \/ Backtrack
    \/ Decide

DeepSpec == Init /\ [][DeepNext]_vars

\* ============================================================== claims
\* The value a literal token ("v" or "-v") has under the variable-to-node map.
TokenVar(tok) == IF tok < 0 THEN 0 - tok ELSE tok
TokenTrue(tok) ==
    /\ TokenVar(tok) \in DOMAIN variable_to_assignment_nodes
    /\ variable_to_assignment_nodes[TokenVar(tok)].value = (tok > 0)

\* The literal tokens of line i of the file (the terminator left out).
LineTokens(i) == {file[i][j] : j \in 1..(Len(file[i]) - 1)}

\* Some total assignment of 1..num_vars satisfies every clause line of the file.
Satisfiable ==
    \E a \in [1..num_vars -> BOOLEAN] :
        \A i \in 1..Len(file) : \E tok \in LineTokens(i) : a[TokenVar(tok)] = (tok > 0)

\* An encoded literal (v, or v + num_vars for "-v") under the current assignment.
LitVar(lit) == IF lit > num_vars THEN lit - num_vars ELSE lit
LitAssigned(lit) == LitVar(lit) \in DOMAIN variable_to_assignment_nodes
LitTrue(lit) ==
    LitAssigned(lit) /\ variable_to_assignment_nodes[LitVar(lit)].value = (lit <= num_vars)
LitFalse(lit) == LitAssigned(lit) /\ ~LitTrue(lit)

\* A conflict was analysed and the solver backtracked at least once in this run.
HasBacktracked == node_to_add # NoNode

\* C1 (verdict soundness): when solve ends SAT, every variable 1..num_vars has a
\* node in the variable-to-node map, and every clause line of the input, stored or
\* consumed as a unit clause, holds a literal that is true under the map.
C1_VerdictSound ==
    result = "SAT" =>
        /\ \A v \in 1..num_vars : v \in DOMAIN variable_to_assignment_nodes
        /\ \A i \in 1..Len(file) : \E tok \in LineTokens(i) : TokenTrue(tok)

\* C1 witness: SAT is reported for a file with stored clauses after a backtrack.
C1_Witness == result = "SAT" /\ HasBacktracked /\ num_clauses >= 2

\* C2 (UNSAT soundness): when solve ends UNSAT, at ingestion or in the loop, no
\* total assignment of 1..num_vars satisfies all clause lines of the input.
C2_UnsatSound == result = "UNSAT" => ~Satisfiable

\* C2 witness: UNSAT is reported in the solve loop, from a conflict at level 0
\* whose sentinel is the tail of the trail.
C2_Witness ==
    /\ result = "UNSAT"
    /\ assignment_stack # <<>>
    /\ assignment_stack[Len(assignment_stack)].var = None
    /\ num_clauses >= 1

\* C3 (termination): once the solve loop is entered it ends, after finitely many
\* steps, with the result set to SAT or to UNSAT.
C3_LoopTerminates == (pc = "bcp") ~> (pc = "done" /\ result \in {"SAT", "UNSAT"})

\* C3 witness: the loop has ended with a verdict after at least one backtrack.
C3_Witness == pc = "done" /\ result \in {"SAT", "UNSAT"} /\ HasBacktracked

\* C4 (POST-BCP-SATISFACTION, no-miss): when BCP has just returned NO_CONFLICT,
\* every stored clause holds a true literal or at least two unassigned literals.
C4_PostBCP ==
    pc = "decide" =>
        \A c \in 1..Len(clauses) :
            \/ \E i \in 1..Len(clauses[c]) : LitTrue(clauses[c][i])
            \/ Cardinality({i \in 1..Len(clauses[c]) : ~LitAssigned(clauses[c][i])}) >= 2

\* C4 witness: BCP returned NO_CONFLICT after it forced a literal of a clause.
C4_Witness ==
    /\ pc = "decide"
    /\ \E i \in 1..Len(assignment_stack) :
          assignment_stack[i].var # None /\ assignment_stack[i].clause # None

\* Membership in a dict of lists, a missing key counting as the empty list.
Watches(lit, c) ==
    c \in DOMAIN literals_watching_c /\ InList(literals_watching_c[c], lit)
WatchedBy(lit, c) ==
    lit \in DOMAIN clauses_watched_by_l /\ InList(clauses_watched_by_l[lit], c)

\* C5 (WATCH-INV): in every reachable state, a literal is in the watched pair of
\* clause c if and only if c is in the watch list of that literal.
C5_WatchInv ==
    \A c \in 0..num_clauses :
        \A lit \in (1..(2 * num_vars)) \cup DOMAIN clauses_watched_by_l :
            Watches(lit, c) <=> WatchedBy(lit, c)

\* C5 witness: BCP has moved a watch of some clause away from its initial pair.
C5_Witness ==
    \E c \in DOMAIN literals_watching_c :
        literals_watching_c[c] # <<clauses[c + 1][1], clauses[c + 1][2]>>

\* C6 (TRAIL-UNIQUE): in every reachable state no variable is the var of two
\* nodes on the trail.
C6_TrailUnique ==
    \A i, j \in 1..Len(assignment_stack) :
        (i # j /\ assignment_stack[i].var # None)
            => assignment_stack[i].var # assignment_stack[j].var

\* C6 witness: backtrack has just appended the flip node of the undone decision
\* behind at least one node it kept.
C6_Witness ==
    /\ pc = "bcp"
    /\ HasBacktracked
    /\ Len(assignment_stack) >= 2
    /\ assignment_stack[Len(assignment_stack)].var = node_to_add[1].var
    /\ assignment_stack[Len(assignment_stack)].clause = None

\* The states between two operations of solve (after ingestion, and after each
\* BCP, conflict analysis, backtrack and decide call).
AtOperationBoundary == pc \in {"solve", "bcp", "analyze", "backtrack", "decide", "done"}

\* The positions of the trail that hold the node of a variable (not a sentinel).
VarNodes == {i \in 1..Len(assignment_stack) : assignment_stack[i].var # None}

\* C7 as stated (MAP-CONSISTENCY): at every operation boundary the key set of the
\* variable-to-node map equals the set of var fields of the nodes on the trail,
\* and the node mapped to a variable is the trail node of that variable.
C7_MapConsistencyAllNodes ==
    AtOperationBoundary =>
        /\ DOMAIN variable_to_assignment_nodes =
              {assignment_stack[i].var : i \in 1..Len(assignment_stack)}
        /\ \A i \in VarNodes :
              variable_to_assignment_nodes[assignment_stack[i].var] = assignment_stack[i]

\* C7 amended: at every operation boundary the key set of the map equals the set
\* of var fields of the trail nodes other than the conflict sentinel, and the
\* node mapped to a variable is the trail node of that variable.
C7_MapConsistency ==
    AtOperationBoundary =>
        /\ DOMAIN variable_to_assignment_nodes = {assignment_stack[i].var : i \in VarNodes}
        /\ \A i \in VarNodes :
              variable_to_assignment_nodes[assignment_stack[i].var] = assignment_stack[i]

\* C7 witness: BCP has returned CONFLICT with the sentinel on a trail of several
\* variable nodes at a level above 0.
C7_Witness ==
    /\ pc = "analyze"
    /\ level >= 1
    /\ Cardinality(VarNodes) >= 2
    /\ assignment_stack[Len(assignment_stack)].var = None

\* C8 (TRAIL-ORDER, LEVEL-MONOTONICITY): in every reachable state each node's
\* index is its position on the trail (so indices strictly increase) and the
\* levels do not decrease along the trail.
C8_TrailOrder ==
    /\ \A i \in 1..Len(assignment_stack) : assignment_stack[i].index = i - 1
    /\ \A i, j \in 1..Len(assignment_stack) :
          i < j => assignment_stack[i].level <= assignment_stack[j].level

\* C8 witness: backtrack has appended a flip node of level 1 or more behind
\* nodes of that level and below.
C8_Witness ==
    /\ pc = "bcp"
    /\ HasBacktracked
    /\ assignment_stack[Len(assignment_stack)] = [node_to_add[1] EXCEPT !.index = Len(assignment_stack) - 1]
    /\ node_to_add[1].level >= 1

\* The clause of line i of the file after the terminator and duplicates are removed.
LineClause(i) == OrderedDictFromKeys(AllButLast(file[i]))

\* C9 as stated: once ingestion has met a clause line of length 0 (only the
\* terminator), the result is UNSAT, ingestion has halted and the solve loop is
\* never entered.
C9_EmptyClauseUnsat ==
    (\E i \in 1..Len(file) : LineClause(i) = <<>>) =>
        /\ result = "UNSAT"
        /\ pc \in {"solve", "done"}

\* Line j of the file is a unit clause whose variable an earlier unit clause of
\* the file has given the opposite value.
ConflictingUnit(j) ==
    /\ Len(LineClause(j)) = 1
    /\ \E i \in 1..(j - 1) :
          /\ Len(LineClause(i)) = 1
          /\ LineClause(i)[1] = 0 - LineClause(j)[1]

ConflictingUnitMet == \E j \in 1..Len(file) : ConflictingUnit(j)

\* C10: once ingestion has met a unit clause whose variable an earlier unit clause
\* gave the opposite value, the result is UNSAT, that line is the last one
\* ingested, solve only goes on to finish, and the step that meets the conflict
\* and every later step leave the trail, the map, the level, the stored clauses
\* and both watch indices unchanged.
C10_UnitConflictHalts ==
    /\ [](ConflictingUnitMet =>
            /\ result = "UNSAT"
            /\ pc \in {"solve", "done"}
            /\ ConflictingUnit(Len(file))
            /\ \A j \in 1..(Len(file) - 1) : ~ConflictingUnit(j))
    /\ [][ConflictingUnitMet' => UNCHANGED solver]_vars
    /\ [][ConflictingUnitMet => (pc' = "done" /\ UNCHANGED <<file, result, bcp_locals>>)]_vars

\* C10 witness: solve has finished after a conflicting unit clause was met in a
\* file that also holds a stored clause.
C10_Witness ==
    /\ ConflictingUnitMet
    /\ pc = "done"
    /\ num_clauses >= 1

\* The solver fields of the current state, as a finished BCP call that returned
\* ret would leave them.
BCPFieldsWith(ret) == [SolverFields EXCEPT !.ret = ret]

\* C11 as stated (idempotent BCP): in every state right after a BCP call returned
\* NO_CONFLICT, a repeated call of the non-first-pass form returns NO_CONFLICT and
\* leaves the trail, the map, the level and both watch indices unchanged.
C11_BCPIdempotent ==
    pc = "decide" => boolean_constraint_propogation(FALSE) = BCPFieldsWith("NO_CONFLICT")

\* C11 witness: BCP has returned NO_CONFLICT on an empty trail, and the repeated
\* call raises IndexError.
C11_Witness ==
    /\ pc = "decide"
    /\ assignment_stack = <<>>
    /\ num_clauses >= 1
    /\ boolean_constraint_propogation(FALSE).ret = "IndexError"

\* The number of times x occurs in a list.
Occurrences(lst, x) == Cardinality({i \in 1..Len(lst) : lst[i] = x})

\* The watched pair of clause id c is well formed: two distinct literals of the
\* clause, and c occurs once in the watch list of each and in no other list.
WatchedPairWellFormed(c) ==
    /\ c \in DOMAIN literals_watching_c
    /\ LET pair == literals_watching_c[c]
       IN /\ Len(pair) = 2
          /\ pair[1] # pair[2]
          /\ \A k \in 1..2 :
                /\ InList(clauses[c + 1], pair[k])
                /\ pair[k] \in DOMAIN clauses_watched_by_l
          /\ \A lit \in DOMAIN clauses_watched_by_l :
                Occurrences(clauses_watched_by_l[lit], c) =
                    IF InList(pair, lit) THEN 1 ELSE 0

\* C12 as stated: in every reachable state every stored clause has a well-formed
\* watched pair (two distinct literals of the clause, the clause id once in each
\* of their watch lists and in no other watch list).
C12_WatchedPairs == \A c \in 0..(Len(clauses) - 1) : WatchedPairWellFormed(c)

\* C12 witness: the empty clause is stored, _add_clause has raised IndexError
\* before it set up the watches, and the clause has no watched pair.
C12_Witness ==
    /\ pc = "crashed"
    /\ Len(clauses) >= 2
    /\ clauses[Len(clauses)] = <<>>
    /\ (Len(clauses) - 1) \notin DOMAIN literals_watching_c
    /\ WatchedPairWellFormed(0)

\* The variables of 1..num_vars that no node on the trail holds.
UnassignedVars ==
    {v \in 1..num_vars : \A i \in 1..Len(assignment_stack) : assignment_stack[i].var # v}

\* The key set and the values of the map after var is mapped to node.
MapPlus(var, node) ==
    /\ DOMAIN variable_to_assignment_nodes' = DOMAIN variable_to_assignment_nodes \cup {var}
    /\ variable_to_assignment_nodes'[var] = node
    /\ \A v \in DOMAIN variable_to_assignment_nodes :
          v # var => variable_to_assignment_nodes'[v] = variable_to_assignment_nodes[v]

\* What a decide call does, by the claim: with a variable unassigned, one node for
\* the smallest of them (value true, level + 1, no reason clause) is appended and
\* mapped, and the level grows by 1; with none, -1 is returned (solve ends SAT)
\* and trail, map and level stay as they are.
DecideStepAsClaimed ==
    IF UnassignedVars # {}
    THEN LET var == CHOOSE v \in UnassignedVars : \A w \in UnassignedVars : v <= w
             node == [var |-> var, value |-> TRUE, level |-> level + 1,
                      clause |-> None, index |-> Len(assignment_stack)]
         IN /\ level' = level + 1
            /\ assignment_stack' = Append(assignment_stack, node)
            /\ MapPlus(var, node)
            /\ result' = result
    ELSE /\ result' = "SAT"
         /\ pc' = "done"
         /\ UNCHANGED <<assignment_stack, variable_to_assignment_nodes, level>>

\* C13 (ORDERED decide): each decide call made with some variable unassigned picks
\* the smallest unassigned variable, raises the level by exactly 1 and appends one
\* node for it with value true, the new level and no reason clause; with every
\* variable assigned it returns -1 and changes neither trail, map nor level.
C13_DecideOrdered == [][pc = "decide" => DecideStepAsClaimed]_vars

\* C13 witness: decide has just opened level 2 or more with a variable other than
\* 1, behind nodes of lower levels.
C13_Witness ==
    /\ pc = "bcp"
    /\ level >= 2
    /\ Len(assignment_stack) >= 3
    /\ LET tail == assignment_stack[Len(assignment_stack)]
       IN /\ tail.clause = None
          /\ tail.level = level
          /\ tail.var >= 2
          /\ tail.value = TRUE
          /\ assignment_stack[Len(assignment_stack) - 1].level < level

\* The input of the worked example: 3 variables, clauses (1 2), (-1 3), (-2 -3).
ExampleFile == <<<<1, 2, 0>>, <<-1, 3, 0>>, <<-2, -3, 0>>>>

\* solve runs on the example input (its header declares 3 variables), the whole
\* file read.
ExampleRun == num_vars = 3 /\ file = ExampleFile /\ pc # "read"

\* A node as it stands on the trail.
TrailNode(var, value, lvl, clause, index) ==
    [var |-> var, value |-> value, level |-> lvl, clause |-> clause, index |-> index]

\* The trail of the example by the claim: 1=true decided, 3=true forced by the
\* second clause (id 1), 2=true decided at level 2; then, after the conflict,
\* 2=false installed by backtrack at level 1.
ClaimedTrailAtConflict ==
    <<TrailNode(1, TRUE, 1, None, 0), TrailNode(3, TRUE, 1, 1, 1),
      TrailNode(2, TRUE, 2, None, 2)>>
ClaimedTrailAtEnd ==
    <<TrailNode(1, TRUE, 1, None, 0), TrailNode(3, TRUE, 1, 1, 1),
      TrailNode(2, FALSE, 1, None, 2)>>

\* BCP has returned CONFLICT on the third clause (id 2) at level 2, behind the
\* three nodes of the claimed trail.
ClaimedConflict ==
    /\ ExampleRun
    /\ pc = "analyze"
    /\ Len(assignment_stack) = 4
    /\ assignment_stack[4].var = None
    /\ assignment_stack[4].clause = 2
    /\ assignment_stack[4].level = 2
    /\ SubSeq(assignment_stack, 1, 3) = ClaimedTrailAtConflict

\* C14 as stated: on the example input the run decides 1=true, which forces
\* 3=true from the second clause, then decides 2=true, which falsifies the third
\* clause and gives a conflict; backtrack installs 2=false; solve ends SAT with
\* 1=true, 2=false, 3=true.
C14_ExampleTrace ==
    /\ ExampleRun ~> ClaimedConflict
    /\ ExampleRun ~> (/\ ExampleRun
                      /\ pc = "done"
                      /\ result = "SAT"
                      /\ assignment_stack = ClaimedTrailAtEnd)

\* The trail of the example on the code: 1=true decided, 3=true forced by the
\* second clause (id 1), 2=false forced by the third clause (id 2), all at level 1.
ForcedTrail ==
    <<TrailNode(1, TRUE, 1, None, 0), TrailNode(3, TRUE, 1, 1, 1),
      TrailNode(2, FALSE, 1, 2, 2)>>

\* C14 amended: on the example input the run decides 1=true, which forces 3=true
\* from the second clause, which forces 2=false from the third clause; there is
\* no second decision, no conflict and no backtrack; solve ends SAT with 1=true,
\* 2=false, 3=true.
C14_ExampleForced ==
    /\ [](ExampleRun =>
            /\ pc \notin {"analyze", "backtrack", "crashed"}
            /\ level <= 1
            /\ node_to_add = NoNode
            /\ Len(assignment_stack) <= 3
            /\ assignment_stack = SubSeq(ForcedTrail, 1, Len(assignment_stack)))
    /\ ExampleRun ~> (/\ ExampleRun
                      /\ pc = "done"
                      /\ result = "SAT"
                      /\ assignment_stack = ForcedTrail)

\* C14 witness: solve has ended SAT on the example input with the forced trail.
C14_Witness ==
    /\ ExampleRun
    /\ pc = "done"
    /\ result = "SAT"
    /\ assignment_stack = ForcedTrail

\* The clause lines of at most MaxLen literal tokens that fit a budget of tokens.
LinesWithin(budget) ==
    UNION {{Append(lits, 0) : lits \in [1..k -> Tokens]} :
               k \in {j \in 0..MaxLen : j + 1 <= budget}}

\* The sequences of such lines whose tokens fit the budget.
RECURSIVE FilesWithin(_)
FilesWithin(budget) ==
    {<<>>} \cup UNION {{<<line>> \o rest : rest \in FilesWithin(budget - Len(line))} :
                           line \in LinesWithin(budget)}

\* The whole files a run that has finished ingestion may have been given: the
\* lines read, followed (when ingestion stopped early, on a conflicting unit
\* clause or an exception) by any lines that were never read.
WholeFiles ==
    IF pc = "solve" /\ result # "UNSAT" THEN {file}
    ELSE {file \o rest : rest \in FilesWithin(MaxTokens - TokensUsed(file))}

\* A sequence with the entries at positions i and j exchanged.
SwapAt(seq, i, j) ==
    [k \in 1..Len(seq) |-> IF k = i THEN seq[j] ELSE IF k = j THEN seq[i] ELSE seq[k]]

\* The files got from f by exchanging two clause lines, or two literals of one
\* clause line.  Every reordering of clauses and of literals inside clauses is a
\* chain of such exchanges, and the files within the token budget are closed
\* under them.
Reorderings(f) ==
    {SwapAt(f, i, j) : i, j \in 1..Len(f)}
        \cup UNION {{[f EXCEPT ![c] = SwapAt(@, i, j)] : i, j \in 1..(Len(f[c]) - 1)} :
                        c \in 1..Len(f)}

\* What a caller of solve sees: SAT or UNSAT, or the exception that ended the call.
Verdict(fields) == IF fields.ret # "" THEN fields.ret ELSE fields.result

\* C15 as stated (permutation invariance): for every input, exchanging two of its
\* clauses or two literals of one of its clauses gives the same SAT/UNSAT verdict.
C15_PermutationInvariant ==
    (pc = "solve" \/ (pc = "crashed" /\ result = "" /\ level = 0)) =>
        \A f \in WholeFiles : \A g \in Reorderings(f) :
            Verdict(solve(g)) = Verdict(solve(f))

\* C15 witness: ingestion has stopped with UNSAT on the conflicting unit clauses
\* "1" and "-1", and the same file with an empty clause line moved from behind
\* them to the front ends with IndexError.
C15_Witness ==
    /\ pc = "solve"
    /\ result = "UNSAT"
    /\ file = <<<<1, 0>>, <<-1, 0>>>>
    /\ <<<<1, 0>>, <<-1, 0>>, <<0>>>> \in WholeFiles
    /\ <<<<0>>, <<-1, 0>>, <<1, 0>>>> \in Reorderings(<<<<1, 0>>, <<-1, 0>>, <<0>>>>)
    /\ Verdict(solve(<<<<1, 0>>, <<-1, 0>>, <<0>>>>)) = "UNSAT"
    /\ Verdict(solve(<<<<0>>, <<-1, 0>>, <<1, 0>>>>)) = "IndexError"

\* The level of the conflict BCP has just returned: the level of the sentinel.
ConflictLevel == assignment_stack[Len(assignment_stack)].level

\* The position of the earliest node of level lvl below the tail of the trail.
EarliestAt(lvl) ==
    CHOOSE p \in 1..(Len(assignment_stack) - 1) :
        /\ assignment_stack[p].level = lvl
        /\ \A q \in 1..(p - 1) : assignment_stack[q].level # lvl

\* The node at position p is the one the decider pushed when it opened its level:
\* it has no reason clause (it is no BCP implication), it holds the decider's value
\* true (a flip node holds the negation of a decision), its level is 1 or more and
\* it is the first node of that level (a flip node comes behind the decision of
\* its level, or has level 0).
IsDecisionNode(p) ==
    /\ assignment_stack[p].clause = None
    /\ assignment_stack[p].value = TRUE
    /\ assignment_stack[p].level >= 1
    /\ \A q \in 1..(p - 1) : assignment_stack[q].level < assignment_stack[p].level

\* What conflict analysis returns for a conflict at level 1 or more, by the claim.
FlipNodeAsClaimed ==
    LET at == EarliestAt(ConflictLevel)
        earliest == assignment_stack[at]
    IN /\ \E p \in 1..(Len(assignment_stack) - 1) :
              assignment_stack[p].level = ConflictLevel
       /\ IsDecisionNode(at)
       /\ backtrack_level' = ConflictLevel - 1
       /\ node_to_add' = <<[var |-> earliest.var,
                            value |-> ~earliest.value,
                            level |-> ConflictLevel - 1,
                            clause |-> None,
                            index |-> -1]>>

\* C16: for a conflict at level L >= 1, conflict analysis returns target level
\* L-1 and a flip node whose variable is that of the earliest trail node at level
\* L, which is the node the decider pushed when it opened level L; the flip node's
\* value is the negation of that decision's value, its level is L-1 and it has no
\* reason clause.
C16_FlipNode == [][(pc = "analyze" /\ ConflictLevel >= 1) => FlipNodeAsClaimed]_vars

\* C16 witness: conflict analysis has returned for a conflict at level 2 or more
\* whose level holds a BCP implication behind the decision, below earlier nodes.
C16_Witness ==
    /\ pc = "backtrack"
    /\ backtrack_level >= 1
    /\ node_to_add # NoNode
    /\ node_to_add[1].level = backtrack_level
    /\ Len(assignment_stack) >= 3
    /\ assignment_stack[Len(assignment_stack)].level = backtrack_level + 1
    /\ assignment_stack[Len(assignment_stack)].clause # None
    /\ assignment_stack[Len(assignment_stack)].var # node_to_add[1].var

\* C17 as stated: conflict analysis pops the conflict sentinel for every conflict
\* level, level 0 included; so once it has returned (to backtrack, or with the
\* root-conflict result that ends solve with UNSAT) no node of the trail has var
\* none.
C17_SentinelPopped ==
    pc \in {"backtrack", "done"} =>
        \A i \in 1..Len(assignment_stack) : assignment_stack[i].var # None

\* C17 witness: conflict analysis has returned (-1, none) for a conflict at level
\* 0, solve has ended UNSAT and the sentinel is still the tail of the trail.
C17_Witness ==
    /\ pc = "done"
    /\ result = "UNSAT"
    /\ backtrack_level = NoVar
    /\ Len(assignment_stack) >= 3
    /\ assignment_stack[Len(assignment_stack)].var = None
    /\ assignment_stack[Len(assignment_stack)].level = 0

\* The nodes of the trail whose level is at most target, in their order.
NodesUpTo(target) ==
    LET AtMost(node) == node.level <= target
    IN SelectSeq(assignment_stack, AtMost)

\* What backtrack(T, F) does, by the claim: the level becomes T; the trail becomes
\* the old nodes of level <= T, which are a prefix of the old trail, followed by F
\* (its index recorded); the map holds exactly the variables of those nodes, each
\* mapped to its node.
BacktrackStepAsClaimed ==
    LET kept == NodesUpTo(backtrack_level)
        tail == [node_to_add[1] EXCEPT !.index = Len(kept)]
    IN /\ level' = backtrack_level
       /\ kept = SubSeq(assignment_stack, 1, Len(kept))
       /\ assignment_stack' = Append(kept, tail)
       /\ DOMAIN variable_to_assignment_nodes' =
             {assignment_stack'[i].var : i \in 1..Len(assignment_stack')}
       /\ \A i \in 1..Len(assignment_stack') :
             variable_to_assignment_nodes'[assignment_stack'[i].var] = assignment_stack'[i]
       /\ \A i \in 1..Len(assignment_stack) :
             assignment_stack[i].level > backtrack_level =>
                 /\ \A j \in 1..Len(kept) : assignment_stack'[j] # assignment_stack[i]
                 /\ \/ assignment_stack[i].var \notin DOMAIN variable_to_assignment_nodes'
                    \/ assignment_stack[i].var = node_to_add[1].var

\* C18: after backtrack(T, F) in the solve loop the level is T, the trail is the
\* old trail's nodes of level <= T (a prefix, in their old order, unchanged)
\* followed by F as the new tail, and the map holds exactly the variables of those
\* nodes; every node that had level > T is gone from the trail and the map.
C18_BacktrackFrame == [][pc = "backtrack" => BacktrackStepAsClaimed]_vars

\* C18 witness: backtrack to a level T >= 1 has just appended the flip node behind
\* the nodes it kept, and a variable it popped is unassigned again.
C18_Witness ==
    /\ pc = "bcp"
    /\ HasBacktracked
    /\ backtrack_level >= 1
    /\ level = backtrack_level
    /\ Len(assignment_stack) >= 2
    /\ assignment_stack[Len(assignment_stack)] =
          [node_to_add[1] EXCEPT !.index = Len(assignment_stack) - 1]
    /\ Cardinality(DOMAIN variable_to_assignment_nodes) <= num_vars - 1

\* A BCP call is running.
InBCP == pc \in {"bcp", "bcp_clause"}

\* The step appends a conflict sentinel (a node whose var is none) to the trail.
SentinelAppended ==
    /\ Len(assignment_stack') = Len(assignment_stack) + 1
    /\ SubSeq(assignment_stack', 1, Len(assignment_stack)) = assignment_stack
    /\ assignment_stack'[Len(assignment_stack')].var = None

\* BCP has just returned CONFLICT: the tail of the trail is the only sentinel, it
\* has the current level, its index, and a reason clause all of whose literals
\* are false under the current assignment.
SentinelJustified ==
    LET tail == assignment_stack[Len(assignment_stack)]
    IN /\ assignment_stack # <<>>
       /\ tail.var = None
       /\ tail.value = None
       /\ tail.level = level
       /\ tail.index = Len(assignment_stack) - 1
       /\ tail.clause \in 0..(Len(clauses) - 1)
       /\ \A i \in 1..Len(clauses[tail.clause + 1]) : LitFalse(clauses[tail.clause + 1][i])
       /\ \A i \in 1..(Len(assignment_stack) - 1) : assignment_stack[i].var # None

\* C19: BCP returns CONFLICT exactly when it has just appended a conflict sentinel
\* (var none, level = current level, reason = clause c) as the trail's tail; at
\* that moment every literal of clause c is false under the current assignment;
\* the call ends with that step, so BCP pushes nothing further and examines no
\* further clause.
C19_ConflictSentinel ==
    /\ [](pc = "analyze" => SentinelJustified)
    /\ [][InBCP => ((pc' = "analyze") <=> SentinelAppended)]_vars
    /\ [][pc' = "analyze" => InBCP]_vars
    /\ [][pc = "analyze" => ~InBCP']_vars

\* C19 witness: BCP has returned CONFLICT at a level above 0 on a clause other
\* than the first one stored, behind at least two nodes.
C19_Witness ==
    /\ pc = "analyze"
    /\ level >= 1
    /\ Len(assignment_stack) >= 3
    /\ assignment_stack[Len(assignment_stack)].var = None
    /\ assignment_stack[Len(assignment_stack)].clause >= 1

\* The step of a BCP call appends an implication node (a node that holds a
\* variable) to the trail.
ImplicationAppended ==
    /\ InBCP
    /\ Len(assignment_stack') = Len(assignment_stack) + 1
    /\ SubSeq(assignment_stack', 1, Len(assignment_stack)) = assignment_stack
    /\ assignment_stack'[Len(assignment_stack')].var # None

\* The encoded literal a node makes true.
TrueLiteral(node) == IF node.value THEN node.var ELSE node.var + num_vars

\* The node the step appends is justified in the state the step starts from: it
\* has a reason clause c, its variable is unassigned, the literal it makes true is
\* a watched literal of c (and a literal of c), every other literal of c is false
\* and its level is the current level.
ImplicationJustified ==
    LET node == assignment_stack'[Len(assignment_stack')]
        c == node.clause
        lit == TrueLiteral(node)
    IN /\ c \in 0..(Len(clauses) - 1)
       /\ node.var \in 1..num_vars
       /\ ~LitAssigned(lit)
       /\ \A i \in 1..Len(assignment_stack) : assignment_stack[i].var # node.var
       /\ InList(literals_watching_c[c], lit)
       /\ InList(clauses[c + 1], lit)
       /\ \A i \in 1..Len(clauses[c + 1]) :
             clauses[c + 1][i] # lit => LitFalse(clauses[c + 1][i])
       /\ node.level = level
       /\ level' = level

\* C20: every implication node BCP pushes with reason clause c is justified: at
\* the moment of the push its variable was unassigned, the literal it makes true
\* is a watched literal of c, every other literal of c is false under the current
\* assignment, and the node's level equals the current decision level.
C20_ImplicationJustified == [][ImplicationAppended => ImplicationJustified]_vars

\* C20 witness: BCP has just forced the last literal of a clause of three
\* literals at level 2 or more.
C20_Witness ==
    /\ pc = "bcp_clause"
    /\ level >= 2
    /\ assignment_stack # <<>>
    /\ assignment_stack[Len(assignment_stack)].clause # None
    /\ assignment_stack[Len(assignment_stack)].level = level
    /\ Len(clauses[assignment_stack[Len(assignment_stack)].clause + 1]) = 3
    /\ last_assignment_pointer = Len(assignment_stack) - 2

\* The value of an encoded literal under a variable-to-node map.
ValueUnder(map, lit) ==
    IF LitVar(lit) \notin DOMAIN map THEN "unassigned"
    ELSE IF map[LitVar(lit)].value = (lit <= num_vars) THEN "true"
    ELSE "false"

\* The step is a pass of BCP's inner loop that ends without a conflict: the clause
\* at itr was skipped as satisfied, had its watch moved, or had its other watch
\* forced, and the loop goes on to itr + 1.
HandledWithoutConflict == pc = "bcp_clause" /\ pc' = "bcp_clause" /\ itr' = itr + 1

\* The clause that pass handles.
HandledClause == clauses_watched_by_falsed_literal[itr + 1]

\* After the pass one watched literal of the clause is true, or both are unassigned.
WatchesTrueOrUnassigned ==
    LET pair == literals_watching_c'[HandledClause]
        map == variable_to_assignment_nodes'
    IN \/ \E k \in 1..Len(pair) : ValueUnder(map, pair[k]) = "true"
       \/ \A k \in 1..Len(pair) : ValueUnder(map, pair[k]) = "unassigned"

\* C21 as stated: each time BCP finishes handling a clause c without reporting a
\* conflict, either one of c's two watched literals is true under the current
\* assignment or both of c's watched literals are unassigned.
C21_WatchesOnLeave == [][HandledWithoutConflict => WatchesTrueOrUnassigned]_vars

\* The literal is false by a node that lies on the trail behind the node BCP is
\* propagating: the cursor of this call has not reached it yet.
FalseAndPending(map, lit) ==
    /\ ValueUnder(map, lit) = "false"
    /\ map[LitVar(lit)].index > last_assignment_pointer
    /\ map[LitVar(lit)].index < Len(assignment_stack')

\* After the pass one watched literal of the clause is true, or one is unassigned
\* and the other is unassigned or false by a node the cursor has not reached.
WatchesTrueOrPending ==
    LET pair == literals_watching_c'[HandledClause]
        map == variable_to_assignment_nodes'
    IN /\ Len(pair) = 2
       /\ \/ \E k \in 1..2 : ValueUnder(map, pair[k]) = "true"
          \/ /\ \E k \in 1..2 : ValueUnder(map, pair[k]) = "unassigned"
             /\ \A k \in 1..2 : \/ ValueUnder(map, pair[k]) = "unassigned"
                                \/ FalseAndPending(map, pair[k])

\* C21 amended: each time BCP finishes handling a clause c without reporting a
\* conflict, one of c's two watched literals is true, or one is unassigned and the
\* other is unassigned or is false by a trail node behind the node being
\* propagated, which the same BCP call still has to propagate.
C21_WatchesOnLeavePending == [][HandledWithoutConflict => WatchesTrueOrPending]_vars

\* C21 witness: BCP has just moved a watch of a clause to an unassigned literal
\* while the other watched literal of that clause is false by the tail node, which
\* the cursor has not reached.
C21_Witness ==
    /\ pc = "bcp_clause"
    /\ itr >= 1
    /\ LET c == clauses_watched_by_falsed_literal[itr]
           pair == literals_watching_c[c]
       IN /\ ~InList(pair, literal_that_is_falsed)
          /\ ValueUnder(variable_to_assignment_nodes, pair[2]) = "unassigned"
          /\ ValueUnder(variable_to_assignment_nodes, pair[1]) = "false"
          /\ variable_to_assignment_nodes[LitVar(pair[1])].index > last_assignment_pointer

\* The step of a BCP call changes a watched pair or the membership of a watch list.
WatchChanged ==
    /\ InBCP
    /\ \/ literals_watching_c' # literals_watching_c
       \/ \E lit \in 1..(2 * num_vars) : \E c \in 0..(num_clauses - 1) :
              WatchedBy(lit, c)' # WatchedBy(lit, c)

\* The literal the node at BCP's cursor makes false.
CursorFalsified ==
    LET node == assignment_stack[last_assignment_pointer + 1]
    IN IF node.value THEN node.var + num_vars ELSE node.var

\* The list of a key of the watch index, a missing key counting as the empty list.
ListOf(dict, lit) == IF lit \in DOMAIN dict THEN dict[lit] ELSE <<>>

\* The watch of clause c moves from the literal falsed to the literal new as the
\* claim says, and nothing else changes.
MovedAsClaimed(c, falsed, new) ==
    LET old_pair == literals_watching_c[c]
        new_pair == literals_watching_c'[c]
        other == CHOOSE lit \in {old_pair[1], old_pair[2]} : lit # falsed
    IN /\ InList(old_pair, falsed)
       /\ InList(clauses[c + 1], new)
       /\ ~InList(old_pair, new)
       /\ ValueUnder(variable_to_assignment_nodes, new) \in {"unassigned", "true"}
       /\ Len(new_pair) = 2
       /\ {new_pair[1], new_pair[2]} = {other, new}
       /\ DOMAIN literals_watching_c' = DOMAIN literals_watching_c
       /\ \A d \in DOMAIN literals_watching_c :
             d # c => literals_watching_c'[d] = literals_watching_c[d]
       /\ WatchedBy(falsed, c) /\ ~WatchedBy(falsed, c)'
       /\ ~WatchedBy(new, c) /\ WatchedBy(new, c)'
       /\ \A lit \in 1..(2 * num_vars) : \A d \in 0..(num_clauses - 1) :
             (d # c \/ lit \notin {falsed, new}) => (WatchedBy(lit, d)' <=> WatchedBy(lit, d))
       /\ \A lit \in 1..(2 * num_vars) :
             lit \notin {falsed, new} =>
                 ListOf(clauses_watched_by_l', lit) = ListOf(clauses_watched_by_l, lit)
       /\ UNCHANGED <<clauses, num_clauses, level, assignment_stack,
                      variable_to_assignment_nodes>>

\* C22: whenever BCP moves a watch of clause c away from the falsified literal,
\* the new watched literal is a literal of c that was not in c's watched pair and
\* is unassigned or true at that moment, the other watched literal of c is kept,
\* and only c's entries change: c's id leaves the falsified literal's watch list,
\* joins the new literal's watch list, and no other clause's watched pair or list
\* membership changes.
C22_WatchMove ==
    [][WatchChanged =>
          /\ pc = "bcp_clause"
          /\ itr < Len(clauses_watched_by_falsed_literal)
          /\ \E c \in 0..(num_clauses - 1) : \E falsed, new \in 1..(2 * num_vars) :
                /\ c = HandledClause
                /\ falsed = CursorFalsified
                /\ MovedAsClaimed(c, falsed, new)]_vars

\* C22 witness: BCP has moved the watch of a clause to a literal that is true, while
\* another clause keeps the falsified literal in its watched pair.
C22_Witness ==
    /\ pc = "bcp_clause"
    /\ itr >= 1
    /\ LET c == clauses_watched_by_falsed_literal[itr]
           pair == literals_watching_c[c]
       IN /\ ~InList(pair, literal_that_is_falsed)
          /\ ValueUnder(variable_to_assignment_nodes, pair[2]) = "true"
          /\ \E d \in DOMAIN literals_watching_c :
                d # c /\ InList(literals_watching_c[d], literal_that_is_falsed)

\* The BCP call that is about to start is the first of the run: no decide and no
\* backtrack call has been made.
FirstCall == level = 0 /\ node_to_add = NoNode

\* The step pushes one node that holds a variable and has no reason clause on top
\* of the first kept nodes of the trail.
PushedOnTopOf(kept) ==
    /\ Len(assignment_stack') = kept + 1
    /\ SubSeq(assignment_stack', 1, kept) = SubSeq(assignment_stack, 1, kept)
    /\ assignment_stack'[kept + 1].var \in 1..num_vars
    /\ assignment_stack'[kept + 1].clause = None
    /\ assignment_stack'[kept + 1].index = kept

\* How solve gets to a BCP call: the first call follows ingestion; every later
\* call follows a decide call, which pushed one node on top of the trail, or a
\* backtrack call, which pushed the flip node on top of the nodes it kept.
CalledAsClaimed ==
    \/ pc = "solve" /\ FirstCall' /\ first_time' /\ assignment_stack' = assignment_stack
    \/ /\ pc = "decide"
       /\ ~FirstCall' /\ ~first_time'
       /\ PushedOnTopOf(Len(assignment_stack))
    \/ /\ pc = "backtrack"
       /\ ~FirstCall' /\ ~first_time'
       /\ \E kept \in 0..(Len(assignment_stack) - 1) : PushedOnTopOf(kept)

\* Where the scan of a BCP call starts: at index 0 in the first call (which
\* returns at once on an empty trail), at the tail in every later call.
ScanStartsAsClaimed ==
    \/ /\ FirstCall
       /\ assignment_stack = <<>>
       /\ pc' = "decide"
    \/ /\ FirstCall
       /\ assignment_stack # <<>>
       /\ pc' = "bcp_clause"
       /\ last_assignment_pointer' = 0
    \/ /\ ~FirstCall
       /\ assignment_stack # <<>>
       /\ pc' = "bcp_clause"
       /\ last_assignment_pointer' = Len(assignment_stack) - 1

\* The literal the trail node at index i (0-based) makes false.
FalsifiedAt(i) ==
    IF assignment_stack[i + 1].value
    THEN assignment_stack[i + 1].var + num_vars
    ELSE assignment_stack[i + 1].var

\* The step puts BCP's cursor on a node: the inner loop starts at 0 on a snapshot
\* that holds exactly the clauses watched by the literal that node makes false.
CursorLoadsAsClaimed ==
    /\ last_assignment_pointer' \in 0..(Len(assignment_stack) - 1)
    /\ assignment_stack' = assignment_stack
    /\ itr' = 0
    /\ \A c \in 0..(num_clauses - 1) :
          InList(clauses_watched_by_falsed_literal', c)
              <=> Watches(FalsifiedAt(last_assignment_pointer'), c)
    /\ \A c \in 0..(num_clauses - 1) :
          Occurrences(clauses_watched_by_falsed_literal', c) <= 1

\* A step of the scan: the inner loop goes on to the next clause of the snapshot
\* or ends the call with a conflict, and the cursor moves only once the inner loop
\* is over, and then to the next node.
ScanStepAsClaimed ==
    \/ /\ itr < Len(clauses_watched_by_falsed_literal)
       /\ pc' = "bcp_clause"
       /\ itr' = itr + 1
       /\ UNCHANGED <<last_assignment_pointer, clauses_watched_by_falsed_literal>>
    \/ /\ itr < Len(clauses_watched_by_falsed_literal)
       /\ pc' = "analyze"
    \/ /\ itr = Len(clauses_watched_by_falsed_literal)
       /\ last_assignment_pointer + 1 < Len(assignment_stack)
       /\ pc' = "bcp_clause"
       /\ last_assignment_pointer' = last_assignment_pointer + 1
       /\ CursorLoadsAsClaimed
    \/ /\ itr = Len(clauses_watched_by_falsed_literal)
       /\ last_assignment_pointer + 1 = Len(assignment_stack)
       /\ pc' = "decide"
       /\ assignment_stack' = assignment_stack

\* The node at index i has been completely propagated: no clause is left watched
\* by the literal it makes false unless the clause's other watched literal is true.
Propagated(i) ==
    \A c \in 0..(num_clauses - 1) :
        Watches(FalsifiedAt(i), c) =>
            \E k \in 1..2 : /\ literals_watching_c[c][k] # FalsifiedAt(i)
                            /\ LitTrue(literals_watching_c[c][k])

\* C23: the first BCP call of a run scans the trail from index 0; every later BCP
\* call is made with a non-empty trail whose tail is the single node just pushed
\* by decide or by backtrack (the flip node), scanning starts at that tail, and
\* every node before the tail has already been completely propagated by an
\* earlier BCP call that returned NO_CONFLICT (a call returns NO_CONFLICT only
\* with its cursor past the last node, after a full inner loop on each node from
\* its start), so no assigned node is left unpropagated when BCP returns
\* NO_CONFLICT.
C23_ScanWindow ==
    /\ [][pc' = "bcp" => CalledAsClaimed]_vars
    /\ [][pc = "bcp" => ScanStartsAsClaimed /\ (pc' = "bcp_clause" => CursorLoadsAsClaimed)]_vars
    /\ [][pc = "bcp_clause" => ScanStepAsClaimed]_vars
    /\ []((pc = "bcp" /\ ~FirstCall) =>
             \A i \in 0..(Len(assignment_stack) - 2) : Propagated(i))
    /\ [](pc = "decide" => \A i \in 0..(Len(assignment_stack) - 1) : Propagated(i))

\* C23 witness: a BCP call is about to start at the flip node that backtrack has
\* pushed at a level above 0, behind an earlier node that makes a watched literal
\* of a clause false.
C23_Witness ==
    /\ pc = "bcp"
    /\ HasBacktracked
    /\ level >= 1
    /\ Len(assignment_stack) >= 2
    /\ assignment_stack[Len(assignment_stack)] =
          [node_to_add[1] EXCEPT !.index = Len(assignment_stack) - 1]
    /\ \E i \in 0..(Len(assignment_stack) - 2) : \E c \in 0..(num_clauses - 1) :
          Watches(FalsifiedAt(i), c)

\* The node at position p of a trail is one the decider created: it holds a
\* variable, has no reason clause, a level of 1 or more (unit facts have level 0)
\* and the decider's value true (a flip node holds false).
DeciderNode(stack, p) ==
    /\ stack[p].var # None
    /\ stack[p].clause = None
    /\ stack[p].level >= 1
    /\ stack[p].value = TRUE

\* The positions of the decider's nodes on the trail.
DecisionNodes == {p \in 1..Len(assignment_stack) : DeciderNode(assignment_stack, p)}

\* The step appends a node to the trail.
NodeAppended ==
    /\ Len(assignment_stack') = Len(assignment_stack) + 1
    /\ SubSeq(assignment_stack', 1, Len(assignment_stack)) = assignment_stack

\* The level counts the decision nodes as the claim says.
LevelCountsDecisions ==
    /\ level = Cardinality(DecisionNodes)
    /\ \A k \in 1..level :
          \E p \in DecisionNodes :
              /\ assignment_stack[p].level = k
              /\ \A q \in DecisionNodes : assignment_stack[q].level = k => q = p
              /\ \A q \in 1..(p - 1) : assignment_stack[q].level < k
    /\ \A p \in 1..Len(assignment_stack) : assignment_stack[p].level <= level
    /\ (level = 0) <=> (DecisionNodes = {})

\* C24: at every operation boundary of the solve loop the current decision level
\* equals the number of decider-created nodes still on the trail: for each k in
\* 1..level the trail holds exactly one such decision node of level k and it is
\* the first node of level k, no node has a level above the current level, and the
\* level is 0 exactly when no decision node is on the trail.  (A node appended to
\* the trail is a decider's node exactly when decide appended it.)
C24_LevelCountsDecisions ==
    /\ [](AtOperationBoundary => LevelCountsDecisions)
    /\ [][NodeAppended =>
             ((pc = "decide") <=> DeciderNode(assignment_stack', Len(assignment_stack')))]_vars

\* C24 witness: backtrack has just installed the flip node at a level above 0, on
\* a trail that still holds the decision node of that level.
C24_Witness ==
    /\ pc = "bcp"
    /\ HasBacktracked
    /\ level >= 1
    /\ assignment_stack[Len(assignment_stack)] =
          [node_to_add[1] EXCEPT !.index = Len(assignment_stack) - 1]
    /\ \E p \in DecisionNodes : assignment_stack[p].level = level

\* The tokens of a list in the order of their first occurrence.
RECURSIVE FirstOccurrences(_)
FirstOccurrences(lst) ==
    IF lst = <<>> THEN <<>>
    ELSE LET NotHead(x) == x # Head(lst)
         IN <<Head(lst)>> \o FirstOccurrences(SelectSeq(Tail(lst), NotHead))

\* The literal tokens of line i of the file, duplicates removed.
LineLiterals(i) == FirstOccurrences(SubSeq(file[i], 1, Len(file[i]) - 1))

\* The lines of the file that reduce to two or more literals, in file order, each
\* as its list of literal tokens without duplicates.
RECURSIVE LongLinesUpTo(_)
LongLinesUpTo(n) ==
    IF n = 0 THEN <<>>
    ELSE IF Len(LineLiterals(n)) >= 2
    THEN Append(LongLinesUpTo(n - 1), LineLiterals(n))
    ELSE LongLinesUpTo(n - 1)

\* The lines of the file that reduce to one literal.
UnitLines == {i \in 1..Len(file) : Len(LineLiterals(i)) = 1}

\* Ingestion has ended and solve has not started its loop.
AfterIngestion == pc = "solve"

\* The stored clauses are the lines of two or more literals: encoded, without
\* duplicates, in first-occurrence order, with the insertion index as id and the
\* literals at positions 0 and 1 as watched pair.
StoredAsClaimed ==
    LET long == LongLinesUpTo(Len(file))
    IN /\ Len(clauses) = Len(long)
       /\ num_clauses = Len(long)
       /\ DOMAIN literals_watching_c = 0..(Len(long) - 1)
       /\ \A j \in 1..Len(long) :
             /\ Len(clauses[j]) = Len(long[j])
             /\ Len(clauses[j]) >= 2
             /\ \A k \in 1..Len(long[j]) :
                   clauses[j][k] = IF long[j][k] < 0 THEN num_vars - long[j][k]
                                                     ELSE long[j][k]
             /\ \A k, l \in 1..Len(clauses[j]) : k # l => clauses[j][k] # clauses[j][l]
             /\ literals_watching_c[j - 1] = <<clauses[j][1], clauses[j][2]>>
             /\ WatchedBy(clauses[j][1], j - 1)
             /\ WatchedBy(clauses[j][2], j - 1)

\* The trail holds a level-0 node without reason clause that gives the variable
\* of the literal token tok the value wanted.
HasUnitNode(tok, value) ==
    \E p \in 1..Len(assignment_stack) :
        /\ assignment_stack[p].var = TokenVar(tok)
        /\ assignment_stack[p].value = value
        /\ assignment_stack[p].level = 0
        /\ assignment_stack[p].clause = None

\* C25 as stated: after ingestion every stored clause is a duplicate-free list of
\* at least two encoded literals in first-occurrence order, its id is its
\* insertion index and its watched pair is the literals at positions 0 and 1; a
\* clause that reduces to one literal is never stored but becomes a level-0 trail
\* node with no reason clause.
C25_Ingested ==
    AfterIngestion =>
        /\ StoredAsClaimed
        /\ \A i \in UnitLines : HasUnitNode(LineLiterals(i)[1], LineLiterals(i)[1] > 0)

\* The unit line at which ingestion halted: the last line read, whose literal is
\* false under a node an earlier unit line left on the trail.
HaltingUnit(i) ==
    /\ result = "UNSAT"
    /\ i = Len(file)
    /\ i \in UnitLines

\* C25 amended: after ingestion the stored clauses are as stated; a clause that
\* reduces to one literal is never stored, and the trail holds the level-0 node
\* without reason clause that makes its literal true, unless its variable already
\* held the opposite value when it was read: then UNSAT is recorded, ingestion
\* halts at that line and the trail keeps the node of the opposite value only.
C25_IngestedUnlessOpposite ==
    AfterIngestion =>
        /\ StoredAsClaimed
        /\ \A i \in UnitLines :
              LET tok == LineLiterals(i)[1]
              IN IF HaltingUnit(i)
                 THEN HasUnitNode(tok, ~(tok > 0)) /\ ~HasUnitNode(tok, tok > 0)
                 ELSE HasUnitNode(tok, tok > 0)
        /\ Len(assignment_stack) = Cardinality({TokenVar(LineLiterals(i)[1]) : i \in UnitLines})
        /\ (result = "UNSAT") <=> (Len(file) \in UnitLines /\ HaltingUnit(Len(file)))

\* C25 witness: ingestion has ended at a unit clause whose variable held the
\* opposite value, after a clause of two or more literals was stored.
C25_Witness ==
    /\ AfterIngestion
    /\ result = "UNSAT"
    /\ Len(clauses) >= 1
    /\ HaltingUnit(Len(file))

\* Ingestion is over (it returned or raised) and solve has not ended.
IngestionOver == pc \notin {"header", "read"}

\* What the two watch indices hold: the watched pair of each clause id and the
\* list of each literal, a missing key counting as the empty list (setdefault
\* adds such a key without adding a watch).
WatchIndices ==
    <<literals_watching_c,
      [lit \in 1..(2 * num_vars) |-> ListOf(clauses_watched_by_l, lit)]>>

\* The step is a watch move of BCP: a pass of the inner loop that changes the
\* watched pair of the clause it handles and the lists of the literals involved.
WatchMoveStep ==
    /\ pc = "bcp_clause"
    /\ itr < Len(clauses_watched_by_falsed_literal)
    /\ \E c \in 0..(num_clauses - 1) :
          /\ c = HandledClause
          /\ literals_watching_c'[c] # literals_watching_c[c]
          /\ \A d \in DOMAIN literals_watching_c :
                d # c => literals_watching_c'[d] = literals_watching_c[d]
          /\ \E lit \in 1..(2 * num_vars) : WatchedBy(lit, c) /\ ~WatchedBy(lit, c)'
          /\ \E lit \in 1..(2 * num_vars) : ~WatchedBy(lit, c) /\ WatchedBy(lit, c)'

ConflictPending ==
    /\ assignment_stack # <<>>
    /\ assignment_stack[Len(assignment_stack)].var = None

\* The step sets the result to the verdict given.
ResultBecomes(verdict) == result # verdict /\ result' = verdict

\* C27: inside the solve loop the result becomes UNSAT only when BCP has reported
\* a conflict while the current decision level is 0, and becomes SAT only when
\* decide finds no unassigned variable directly after a BCP call that returned
\* NO_CONFLICT; backtrack is never called with a negative target level and decide
\* is never called while a conflict is pending.
C27_VerdictPoints ==
    /\ [][(IngestionOver /\ ResultBecomes("UNSAT")) =>
             (pc = "analyze" /\ ConflictPending /\ level = 0 /\ ConflictLevel = 0)]_vars
    /\ [][ResultBecomes("SAT") =>
             /\ pc = "decide"
             /\ ~ConflictPending
             /\ \A v \in 1..num_vars : v \in DOMAIN variable_to_assignment_nodes]_vars
    /\ [][pc' = "decide" => (InBCP /\ ~ConflictPending')]_vars
    /\ [][pc' = "analyze" => (InBCP /\ ConflictPending')]_vars
    /\ [](pc = "backtrack" => backtrack_level >= 0)
    /\ [](pc = "decide" => ~ConflictPending)

\* C27 witness: solve has ended SAT after a backtrack to a level above 0.
C27_Witness ==
    /\ pc = "done"
    /\ result = "SAT"
    /\ HasBacktracked
    /\ backtrack_level >= 1
    /\ level >= 2

\* The contents of a trail: the (variable, value, level) of its nodes, in order.
TrailContents(stack) ==
    [i \in 1..Len(stack) |-> <<stack[i].var, stack[i].value, stack[i].level>>]

\* The trail contents observed in the rest of a run of solve's loop, from a BCP
\* call on the solver fields s on, behind those seen so far: one right after each
\* backtrack call and one right after each decide call (after every decide call,
\* or only after those that push a decision).  The list ends with the run, or
\* with the first observation that repeats an earlier one.
RECURSIVE SearchStates(_, _, _, _)
SearchStates(s, is_first_time, seen, every_decide_call) ==
    LET after_bcp == BCP(s, is_first_time)
        decided == decide(after_bcp)
        backtracked == find_backtrack_and_backtrack(after_bcp)
        Observed(stack) == Append(seen, TrailContents(stack))
        Repeats(stack) == InList(seen, TrailContents(stack))
    IN IF after_bcp.ret = "NO_CONFLICT"
       THEN IF decided.ret = "-1"
            THEN IF every_decide_call THEN Observed(decided.stack) ELSE seen
            ELSE IF Repeats(decided.stack) THEN Observed(decided.stack)
            ELSE SearchStates(decided, FALSE, Observed(decided.stack), every_decide_call)
       ELSE IF after_bcp.ret = "CONFLICT" /\ backtracked.ret = ""
       THEN IF Repeats(backtracked.stack) THEN Observed(backtracked.stack)
            ELSE SearchStates(backtracked, FALSE, Observed(backtracked.stack),
                              every_decide_call)
       ELSE seen

\* No two entries of a list are equal.
PairwiseDistinct(lst) == \A i, j \in 1..Len(lst) : i < j => lst[i] # lst[j]

\* solve is about to enter its loop on the file read.
LoopStarts == pc = "solve" /\ result # "UNSAT"

\* C28 as stated: no search state is revisited within a run: the trail contents
\* (sequence of variable, value, level) observed right after each decide call and
\* right after each backtrack call are pairwise distinct over the whole run.
C28_NoRevisit ==
    LoopStarts => PairwiseDistinct(SearchStates(SolverFields, TRUE, <<>>, TRUE))

\* C28 amended: the trail contents observed right after each decide call that
\* pushes a decision and right after each backtrack call are pairwise distinct
\* over the whole run (the last decide call of a SAT run pushes nothing and
\* leaves the trail it found).
C28_NoRevisitByDecisions ==
    LoopStarts => PairwiseDistinct(SearchStates(SolverFields, TRUE, <<>>, FALSE))

\* C28 witness: the run that starts makes at least two decisions and at least one
\* backtrack.
C28_Witness ==
    /\ LoopStarts
    /\ LET seen == SearchStates(SolverFields, TRUE, <<>>, FALSE)
       IN /\ Len(seen) >= 3
          /\ \E i \in 1..Len(seen) : seen[i] # <<>> /\ seen[i][Len(seen[i])][2] = FALSE
          /\ \E i, j \in 1..Len(seen) :
                /\ i < j
                /\ seen[i] # <<>> /\ seen[i][Len(seen[i])][2] = TRUE
                /\ seen[j] # <<>> /\ seen[j][Len(seen[j])][2] = TRUE

\* ------------------------------------------------------------------ C29
\* No watched literal of a stored clause is false under the map unless the other
\* watched literal of the clause is true under it.
WatchesSound(map) ==
    \A c \in DOMAIN literals_watching_c :
        LET pair == literals_watching_c[c]
        IN \A k \in 1..Len(pair) :
              ValueUnder(map, pair[k]) = "false" =>
                 \E j \in 1..Len(pair) : j # k /\ ValueUnder(map, pair[j]) = "true"

\* No stored clause is unit or falsified under the map: each holds a true literal
\* or at least two unassigned ones.
NothingHidden(map) ==
    \A c \in 1..Len(clauses) :
        \/ \E i \in 1..Len(clauses[c]) : ValueUnder(map, clauses[c][i]) = "true"
        \/ Cardinality({i \in 1..Len(clauses[c]) :
                           ValueUnder(map, clauses[c][i]) = "unassigned"}) >= 2

\* The nodes _backtrack is about to pop, and the map once it has popped them and
\* has not yet appended node_to_add.
NodesToPop ==
    (KeptLength(assignment_stack, backtrack_level) + 1)..Len(assignment_stack)
MapAfterPops ==
    MapWithout(variable_to_assignment_nodes, {assignment_stack[p].var : p \in NodesToPop})

\* BCP has returned NO_CONFLICT and nothing was pushed since.
NoConflictReturned == pc = "decide" \/ (pc = "done" /\ result = "SAT")

\* C29 (two-watched-literal invariant): whenever BCP has returned NO_CONFLICT, and
\* until the next push onto the trail, no stored clause has a false watched
\* literal unless its other watched literal is true; the same holds right after
\* _backtrack has removed the nodes above the target level, with the watches left
\* as BCP moved them; so in both states no stored clause is unit or falsified.
C29_WatchesSound ==
    /\ NoConflictReturned =>
          /\ WatchesSound(variable_to_assignment_nodes)
          /\ NothingHidden(variable_to_assignment_nodes)
    /\ pc = "backtrack" =>
          /\ WatchesSound(MapAfterPops)
          /\ NothingHidden(MapAfterPops)

\* C29 witness: _backtrack is about to pop at least two nodes and to keep at least
\* one, and some clause no longer watches one of its first two literals although
\* that literal is unassigned again once the nodes are popped: the watch stays
\* where BCP moved it.
C29_Witness ==
    /\ pc = "backtrack"
    /\ Cardinality(NodesToPop) >= 2
    /\ KeptLength(assignment_stack, backtrack_level) >= 1
    /\ \E c \in DOMAIN literals_watching_c :
          \E k \in 1..2 :
             /\ ~InList(literals_watching_c[c], clauses[c + 1][k])
             /\ ValueUnder(variable_to_assignment_nodes, clauses[c + 1][k]) = "false"
             /\ ValueUnder(MapAfterPops, clauses[c + 1][k]) = "unassigned"

\* ------------------------------------------------------------------ C30
\* A node of a variable that holds value false and has no reason clause.
FreeFalseNode(node) == node.var # None /\ node.clause = None /\ node.value = FALSE

\* The node at position p of the trail after the step was not there before it.
NewAt(p) ==
    \/ p > Len(assignment_stack)
    \/ assignment_stack[p].var # assignment_stack'[p].var
    \/ assignment_stack[p].level # assignment_stack'[p].level
    \/ assignment_stack[p].clause # assignment_stack'[p].clause
    \/ assignment_stack[p].value # assignment_stack'[p].value

\* The step reads a clause line that reduces to the one negative literal "-var".
ReadsNegativeUnit(var) ==
    /\ pc = "read"
    /\ Len(file') = Len(file) + 1
    /\ LET line == file'[Len(file')]
       IN {line[j] : j \in 1..(Len(line) - 1)} = {0 - var}

\* The step is _backtrack installing the flip node conflict analysis returned.
InstallsFlip(p) ==
    /\ pc = "backtrack"
    /\ node_to_add # NoNode
    /\ p = Len(assignment_stack')
    /\ assignment_stack'[p].var = node_to_add[1].var
    /\ assignment_stack'[p].level = backtrack_level

\* The trail node conflict analysis chose to flip: the node of the variable of
\* the flip node it returns.
ChosenToFlip ==
    CHOOSE p \in 1..Len(assignment_stack) : assignment_stack[p].var = node_to_add'[1].var

\* C30: every node the decider pushes has value true, and every flip node that
\* conflict analysis returns and _backtrack installs has value false; a node with
\* value false and no reason clause enters the trail only as a flip node or as
\* the level-0 node of a negative unit clause line at ingestion; the node that a
\* conflict analysis chooses to flip is a node the decider pushed (value true,
\* no reason clause, level 1 or more, first of its level), never a flip node.
C30_FlipPolarity ==
    /\ [][(pc = "decide" /\ NodeAppended) =>
             /\ assignment_stack'[Len(assignment_stack')].var # None
             /\ assignment_stack'[Len(assignment_stack')].value = TRUE]_vars
    /\ [][(pc = "analyze" /\ pc' = "backtrack") =>
             /\ node_to_add' # NoNode
             /\ node_to_add'[1].value = FALSE
             /\ node_to_add'[1].clause = None]_vars
    /\ [][(pc = "backtrack" /\ pc' = "bcp") =>
             /\ InstallsFlip(Len(assignment_stack'))
             /\ FreeFalseNode(assignment_stack'[Len(assignment_stack')])]_vars
    /\ [][\A p \in 1..Len(assignment_stack') :
             (FreeFalseNode(assignment_stack'[p]) /\ NewAt(p)) =>
                 \/ /\ ReadsNegativeUnit(assignment_stack'[p].var)
                    /\ assignment_stack'[p].level = 0
                 \/ InstallsFlip(p)]_vars
    /\ [][(pc = "analyze" /\ pc' = "backtrack") =>
             /\ \E p \in 1..Len(assignment_stack) :
                   assignment_stack[p].var = node_to_add'[1].var
             /\ IsDecisionNode(ChosenToFlip)
             /\ ~FreeFalseNode(assignment_stack[ChosenToFlip])]_vars

\* C30 witness: a conflict analysis has returned its flip node for a conflict at a
\* level whose nodes include the flip node of an earlier conflict.
C30_Witness ==
    /\ pc = "backtrack"
    /\ node_to_add # NoNode
    /\ node_to_add[1].value = FALSE
    /\ \E p \in 1..Len(assignment_stack) :
          /\ FreeFalseNode(assignment_stack[p])
          /\ assignment_stack[p].level = backtrack_level + 1
          /\ assignment_stack[p].level >= 1

\* ------------------------------------------------------------------ C31
\* The positions of the trail that hold a conflict sentinel (a node whose var is
\* none).
Sentinels == {p \in 1..Len(assignment_stack) : assignment_stack[p].var = None}

\* C31: in every reachable state the trail holds at most one conflict sentinel
\* and a sentinel is the tail node; no sentinel is on the trail when _backtrack or
\* _decide is about to run or when SAT is the recorded result; and every node
\* _backtrack is about to pop is the node of a variable that is a key of the
\* variable-to-node map, so its "del" never meets a node whose var is none.
C31_OneSentinelAtTail ==
    /\ Cardinality(Sentinels) <= 1
    /\ \A p \in Sentinels : p = Len(assignment_stack)
    /\ pc \in {"backtrack", "decide"} => Sentinels = {}
    /\ result = "SAT" => Sentinels = {}
    /\ pc = "backtrack" =>
          \A p \in NodesToPop :
              /\ assignment_stack[p].var # None
              /\ assignment_stack[p].var \in DOMAIN variable_to_assignment_nodes

\* C31 witness: _backtrack is about to run for a later conflict of the run: the
\* trail holds the flip node of an earlier conflict (whose sentinel was pushed and
\* popped), the sentinel of this conflict is popped too, and at least two nodes
\* are to be removed from the trail and the map.
C31_Witness ==
    /\ pc = "backtrack"
    /\ \E p \in 1..Len(assignment_stack) :
          FreeFalseNode(assignment_stack[p]) /\ p \in NodesToPop
    /\ Cardinality(NodesToPop) >= 2

====
